---- MODULE Spec2Model ----
(***************************************************************************)
(* Pointer-base solver of the integrator (llvm/lib/Analysis/Integrator/    *)
(* PointerBase.cpp) and its value-set lattice (struct PointerBase in       *)
(* HypotheticalConstantFolder.h).                                          *)
(*                                                                         *)
(* The specifications of this module:                                      *)
(*   SpecPB     the lattice alone: insert / merge applied to one fact;     *)
(*   SpecMerge  getMergeBasePointer over the inputs of one merge point,    *)
(*              evaluated in two orders (SpecMergeOnce: in one);           *)
(*   Spec       the solver driver over a small program in one context;     *)
(*   FairSpec   Spec with weak fairness of the steps of a running phase;   *)
(*   SpecDead   Spec and a second pass over the program with one more      *)
(*              dead block;                                                *)
(*   SpecInval  Spec and the invalidation of the load caches between runs; *)
(*   FairDriverSpec  Spec with weak fairness of the steps of the driver;   *)
(*   SpecVague  Spec over the program with two loads of a pointer that has *)
(*              no symbolic expression;                                    *)
(*   SpecDefn   addPBDefn applied once to the fact of a load attempt;      *)
(*   SpecBinop  one evaluation of a binary operator, for every opcode and  *)
(*              every pair of operand facts;                               *)
(*   SpecPeel   the header PHI of a peeled loop, evaluated in the          *)
(*              iterations of the loop;                                    *)
(*   SpecTree   the triage of one pending value and the start of its loop  *)
(*              group, over a tree of inlined calls and peeled loops;      *)
(*   SpecScope  one call of addStartOfScopePB, for every window of a load  *)
(*              into the initializer of a global.                          *)
(***************************************************************************)
EXTENDS Integers, Sequences, FiniteSets, TLC

(***************************************************************************)
(* Bounds of the model and constants of the program.                       *)
(***************************************************************************)
PBMAX == 16

\* ValCtx::noOffset is LLONG_MAX: the largest offset there is.  It is
\* represented by the largest integer of the model checker.
noOffset == 2147483647

not_va_arg == -1

\* IR values 1..MaxValue, contexts 0 (null) .. MaxCtx, used to build the
\* ValCtx universe of the lattice specification.
MaxValue == 5

MaxCtx == 1

\* Operations applied to the fact in one behaviour of SpecPB.
MaxOps == 2

\* Iterations of the peeled loop of SpecPeel.
MaxIters == 2

\* Inputs (incoming values, select operands, return instructions) of the
\* merge point of SpecMerge.
MaxPreds == 3

(***************************************************************************)
(* ValCtx: <<first, second, offset, va_arg>>.                              *)
(***************************************************************************)
make_vc(V, H) == <<V, H, noOffset, not_va_arg>>

VCEq(V1, V2) ==
    V1[1] = V2[1] /\ V1[2] = V2[2] /\ V1[3] = V2[3] /\ V1[4] = V2[4]

VCLess(V1, V2) ==
    IF V1[1] # V2[1] THEN V1[1] < V2[1]
    ELSE IF V1[2] # V2[2] THEN V1[2] < V2[2]
    ELSE IF V1[3] # V2[3] THEN V1[3] < V2[3]
    ELSE V1[4] < V2[4]

AllRefs ==
    { <<v, c, o, not_va_arg>> : v \in 1..MaxValue, c \in 0..MaxCtx, o \in {0, noOffset} }

\* std::sort of a vector of ValCtx (insertion into a sorted prefix).
RECURSIVE sortedInsert(_, _)
sortedInsert(s, x) ==
    IF s = <<>> THEN <<x>>
    ELSE IF VCLess(x, Head(s)) THEN <<x>> \o s
    ELSE <<Head(s)>> \o sortedInsert(Tail(s), x)

RECURSIVE sortVCs(_)
sortVCs(s) ==
    IF s = <<>> THEN <<>> ELSE sortedInsert(sortVCs(Tail(s)), Head(s))

Range(s) == { s[i] : i \in 1..Len(s) }

(***************************************************************************)
(* struct PointerBase                                                      *)
(***************************************************************************)
ValSetTypes == {"Unknown", "PB", "Scalar"}

PointerBase(T, OD) == [Type |-> T, Values |-> <<>>, Overdef |-> OD]

NullPB == PointerBase("Unknown", FALSE)

isInitialised(P) == P.Overdef \/ Len(P.Values) > 0

setOverdef(P) == [P EXCEPT !.Values = <<>>, !.Overdef = TRUE]

\* std::count(Values.begin(), Values.end(), VC)
countVC(s, VC) == Cardinality({ i \in 1..Len(s) : VCEq(s[i], VC) })

\* insert with the capacity test off by one.
insert_capOffByOne(P, VC) ==
    IF P.Overdef THEN P
    ELSE IF countVC(P.Values, VC) > 0 THEN P
    ELSE IF Len(P.Values) > PBMAX THEN setOverdef(P)
    ELSE [P EXCEPT !.Values = Append(@, VC)]

\* insert that drops the new value when the set is full.
insert_dropAtCap(P, VC) ==
    IF P.Overdef THEN P
    ELSE IF countVC(P.Values, VC) > 0 THEN P
    ELSE IF Len(P.Values) + 1 > PBMAX THEN P
    ELSE [P EXCEPT !.Values = Append(@, VC)]

\* insert that looks at the capacity before it looks for the value.
insert_capBeforeCount(P, VC) ==
    IF P.Overdef THEN P
    ELSE IF Len(P.Values) + 1 > PBMAX THEN setOverdef(P)
    ELSE IF countVC(P.Values, VC) > 0 THEN P
    ELSE [P EXCEPT !.Values = Append(@, VC)]

insert(P, VC) ==
    IF P.Overdef THEN P
    ELSE IF countVC(P.Values, VC) > 0 THEN P
    ELSE IF Len(P.Values) + 1 > PBMAX THEN setOverdef(P)
    ELSE [P EXCEPT !.Values = Append(@, VC)]

\* The loop of merge: insert OtherPB.Values[i..] while the fact is not overdefined.
RECURSIVE insertFrom(_, _, _)
insertFrom(P, vals, i) ==
    IF i > Len(vals) \/ P.Overdef THEN P
    ELSE insertFrom(insert(P, vals[i]), vals, i + 1)

\* merge without the type test.
merge_noTypeCheck(P, OtherPB) ==
    IF OtherPB.Overdef THEN setOverdef(P)
    ELSE insertFrom([P EXCEPT !.Type = OtherPB.Type], OtherPB.Values, 1)

merge(P, OtherPB) ==
    IF OtherPB.Overdef THEN setOverdef(P)
    ELSE IF isInitialised(P) /\ OtherPB.Type # P.Type THEN setOverdef(P)
    ELSE insertFrom([P EXCEPT !.Type = OtherPB.Type], OtherPB.Values, 1)

getPB(VC, t) == insert(PointerBase(t, FALSE), VC)

getOverdef == PointerBase("Unknown", TRUE)

\* operator==(PointerBase&, PointerBase&): the type is not compared.
PBEq(PB1, PB2) ==
    IF PB1.Overdef # PB2.Overdef THEN FALSE
    ELSE IF PB1.Overdef THEN TRUE
    ELSE IF Len(PB1.Values) # Len(PB2.Values) THEN FALSE
    ELSE LET s1 == sortVCs(PB1.Values)
             s2 == sortVCs(PB2.Values)
         IN \A i \in 1..Len(s1) : VCEq(s1[i], s2[i])

\* operator== sorts both operands in place when it gets as far as comparing.
sortedByEq(P, Q) ==
    IF P.Overdef # Q.Overdef \/ P.Overdef \/ Len(P.Values) # Len(Q.Values) THEN P
    ELSE [P EXCEPT !.Values = sortVCs(@)]

(***************************************************************************)
(* The facts the lattice specification starts from and merges in: what     *)
(* the constructors and runs of insert build over AllRefs.                 *)
(***************************************************************************)
RECURSIVE setToSortedSeq(_)
setToSortedSeq(S) ==
    IF S = {} THEN <<>>
    ELSE LET m == CHOOSE x \in S : \A y \in S \ {x} : VCLess(x, y)
         IN <<m>> \o setToSortedSeq(S \ {m})

RefSeq == setToSortedSeq(AllRefs)

NumRefs == Len(RefSeq)

RECURSIVE reverse(_)
reverse(s) == IF s = <<>> THEN <<>> ELSE Append(reverse(Tail(s)), Head(s))

rangeFact(T, lo, hi) ==
    insertFrom(PointerBase(T, FALSE), SubSeq(RefSeq, lo, hi), 1)

OperandFacts ==
    { NullPB, getOverdef, PointerBase("PB", FALSE), PointerBase("Scalar", FALSE),
      setOverdef(PointerBase("PB", FALSE)) }
    \cup { rangeFact(T, 1, n) : T \in {"PB", "Scalar"}, n \in {1, 2, PBMAX - 1, PBMAX} }
    \cup { rangeFact(T, NumRefs - n + 1, NumRefs) : T \in {"PB", "Scalar"}, n \in {1, PBMAX} }
    \cup { insertFrom(PointerBase(T, FALSE), reverse(SubSeq(RefSeq, 1, 3)), 1) : T \in {"PB", "Scalar"} }

\* The last is the first reference as a vararg: equal to it in value,
\* context and offset only.
InsertRefs ==
    { RefSeq[i] : i \in {1, 2, 3, PBMAX, PBMAX + 1, NumRefs} }
    \cup { [RefSeq[1] EXCEPT ![4] = 0] }

(***************************************************************************)
(* IntegrationAttempt::getMergeBasePointer                                 *)
(*                                                                         *)
(* An input of a merge point is [dead, valid, pb]: dead says that its edge *)
(* (PHI) or return block (call) is dead in the context; valid and pb are   *)
(* what getValSetOrReplacement answers for it.                             *)
(***************************************************************************)
RECURSIVE selectSeq(_, _)
selectSeq(s, keep) ==
    IF s = <<>> THEN <<>>
    ELSE IF keep[1] THEN <<Head(s)>> \o selectSeq(Tail(s), Tail(keep))
    ELSE selectSeq(Tail(s), Tail(keep))

\* Every input is taken, whether its edge or return block is dead or not.
mergeVals_keepDead(kind, preds) == preds

\* An input on a dead edge is kept as an input without a fact.
mergeVals_deadHasNoFact(kind, preds) ==
    [i \in 1..Len(preds) |->
        IF kind # "Select" /\ preds[i].dead THEN [preds[i] EXCEPT !.valid = FALSE]
        ELSE preds[i]]

\* The vector Vals: both operands of a select; the return values of the live
\* return blocks of an inlined call; the incoming values of the live edges
\* of a PHI.
mergeVals(kind, preds) ==
    IF kind = "Select" THEN preds
    ELSE selectSeq(preds, [i \in 1..Len(preds) |-> ~preds[i].dead])

\* The loop over Vals with an input that has no fact skipped in both phases.
RECURSIVE mergeLoop_alwaysSkip(_, _, _, _, _)
mergeLoop_alwaysSkip(Vals, finalise, NewPB, anyInfo, i) ==
    IF i > Len(Vals) \/ NewPB.Overdef THEN [ret |-> anyInfo, pb |-> NewPB]
    ELSE IF ~Vals[i].valid
         THEN mergeLoop_alwaysSkip(Vals, finalise, NewPB, anyInfo, i + 1)
         ELSE mergeLoop_alwaysSkip(Vals, finalise, merge(NewPB, Vals[i].pb), TRUE, i + 1)

\* The loop over Vals: [ret |-> value returned, pb |-> NewPB on return].
RECURSIVE mergeLoop(_, _, _, _, _)
mergeLoop(Vals, finalise, NewPB, anyInfo, i) ==
    IF i > Len(Vals) \/ NewPB.Overdef THEN [ret |-> anyInfo, pb |-> NewPB]
    ELSE IF ~Vals[i].valid
         THEN IF finalise THEN [ret |-> TRUE, pb |-> getOverdef]
              ELSE mergeLoop(Vals, finalise, NewPB, anyInfo, i + 1)
         ELSE mergeLoop(Vals, finalise, merge(NewPB, Vals[i].pb), TRUE, i + 1)

\* kind "CallNotInlined" stands for a void call or a call without an
\* InlineAttempt: no information.
getMergeBasePointer(kind, preds, finalise, NewPB) ==
    IF kind = "CallNotInlined" THEN [ret |-> FALSE, pb |-> NewPB]
    ELSE mergeLoop(mergeVals(kind, preds), finalise, NewPB, FALSE, 1)

VARIABLES fact, held, lastOp, nops

pbVars == <<fact, held, lastOp, nops>>

VARIABLES mkind, mpreds, mfin, mperm, mout1, mout2, mphase

mergeVars == <<mkind, mpreds, mfin, mperm, mout1, mout2, mphase>>

\* State of the solver specification.  The analysed program and the order
\* of the addresses of its values are fixed when the pass is constructed;
\* the dead blocks of the root context and the calls that have an
\* InlineAttempt are what the rest of the integrator has found so far.
\* ctxTree describes the contexts below the root context (SpecTree); lfa is
\* a LoadForwardAttempt taken alone (SpecDefn).
VARIABLES prog, addrDown, deadBlocks, inlineChildren, ctxTree, lfa

\* IntegrationAttempt (root context): facts, replacements and the load caches.
VARIABLES pointerBases, improvedValues, defOrClobberCache, failedLFACache,
          memWriterEffects, CFGDependentPBLoads, callBlockedPBLoads

\* IntegrationHeuristicsPass: the work queues of the solver.
VARIABLES PBsConsideredThisRun, PBQueue1, PBQueue2, PBProduceQ,
          pendingPBChecks1, pendingPBChecks2, producePendingPBChecks

\* Locals of the driver runPointerBaseSolver() and of the phase
\* runPointerBaseSolver(finalise, modifiedVCs), and the driver's position.
VARIABLES pc, LoopsToCheck, ValuesToCheck, solverFinalise, ConsumeQ, sweep,
          updatedVCs

\* History: failed assertions, the values the client queued, the number of
\* driver runs, the last call of updateBasePointer, the facts after run 1,
\* the loads owed an evaluation after a store changed and after their caches
\* were dropped.
VARIABLES asserts, seeds, runs, lastUpdate, afterRun, owed, requeued

\* History of the client: the facts of the pass before the block extraDead
\* was added to deadBlocks, and the last invalidation of load caches.
VARIABLES baseline, extraDead, lastInval

progVars == <<prog, addrDown, deadBlocks, inlineChildren, ctxTree, lfa>>

clientVars == <<baseline, extraDead, lastInval>>

attemptVars ==
    <<pointerBases, improvedValues, defOrClobberCache, failedLFACache,
      memWriterEffects, CFGDependentPBLoads, callBlockedPBLoads>>

queueVars ==
    <<PBsConsideredThisRun, PBQueue1, PBQueue2, PBProduceQ,
      pendingPBChecks1, pendingPBChecks2, producePendingPBChecks>>

driverVars ==
    <<pc, LoopsToCheck, ValuesToCheck, solverFinalise, ConsumeQ, sweep, updatedVCs>>

historyVars == <<asserts, seeds, runs, lastUpdate, afterRun, owed, requeued>>

solverVars == <<progVars, attemptVars, queueVars, driverVars, historyVars, clientVars>>

vars == <<pbVars, mergeVars, solverVars>>

\* The root context alone: no peel attempts and no inlined calls.
NoTree == [peel |-> <<>>, inl |-> {}, dead |-> {}, deadBlocks |-> {}, nullThis |-> FALSE]

\* No load-forward attempt is in progress.
NoAttempt == <<>>

\* lastInval before any invalidation.  Otherwise: the handler, the call it
\* was given, the (load, context) pairs it found in the reverse index, and
\* the state of the context before it ran.
NoInval == [kind |-> "none", call |-> 0, loads |-> {}]

NoUpdate ==
    [V |-> 0, finalise |-> FALSE, OldPBValid |-> FALSE, OldPB |-> NullPB,
     stored |-> FALSE, NewPB |-> NullPB]

IdleSolver ==
    /\ prog = <<>>
    /\ addrDown = FALSE
    /\ deadBlocks = {}
    /\ inlineChildren = {}
    /\ ctxTree = NoTree
    /\ lfa = NoAttempt
    /\ callBlockedPBLoads = <<>>
    /\ requeued = {}
    /\ baseline = <<>>
    /\ extraDead = 0
    /\ lastInval = NoInval
    /\ pointerBases = <<>>
    /\ improvedValues = <<>>
    /\ defOrClobberCache = <<>>
    /\ failedLFACache = <<>>
    /\ memWriterEffects = <<>>
    /\ CFGDependentPBLoads = {}
    /\ PBsConsideredThisRun = <<>>
    /\ PBQueue1 = <<>>
    /\ PBQueue2 = <<>>
    /\ PBProduceQ = 1
    /\ pendingPBChecks1 = <<>>
    /\ pendingPBChecks2 = <<>>
    /\ producePendingPBChecks = 1
    /\ pc = "none"
    /\ LoopsToCheck = <<>>
    /\ ValuesToCheck = <<>>
    /\ solverFinalise = FALSE
    /\ ConsumeQ = 2
    /\ sweep = <<>>
    /\ updatedVCs = <<>>
    /\ asserts = {}
    /\ seeds = {}
    /\ runs = 0
    /\ lastUpdate = NoUpdate
    /\ afterRun = <<>>
    /\ owed = {}

NoOut == [ret |-> FALSE, pb |-> NullPB]

IdlePB ==
    /\ fact = NullPB
    /\ held = {}
    /\ lastOp = [kind |-> "none", pre |-> NullPB, arg |-> NullPB, vc |-> <<0, 0, 0, 0>>]
    /\ nops = 0

IdleMerge ==
    /\ mkind = "none"
    /\ mpreds = <<>>
    /\ mfin = FALSE
    /\ mperm = <<>>
    /\ mout1 = NoOut
    /\ mout2 = NoOut
    /\ mphase = 0

NoOp == [kind |-> "none", pre |-> NullPB, arg |-> NullPB, vc |-> <<0, 0, 0, 0>>]

InitPB ==
    /\ fact \in OperandFacts
    /\ held = Range(fact.Values)
    /\ lastOp = NoOp
    /\ nops = 0
    /\ IdleMerge
    /\ IdleSolver

Insert(VC) ==
    /\ nops < MaxOps
    /\ fact' = insert(fact, VC)
    /\ held' = held \cup {VC}
    /\ lastOp' = [kind |-> "insert", pre |-> fact, arg |-> NullPB, vc |-> VC]
    /\ nops' = nops + 1
    /\ UNCHANGED <<mergeVars, solverVars>>

Merge(OtherPB) ==
    /\ nops < MaxOps
    /\ fact' = merge(fact, OtherPB)
    /\ held' = held \cup Range(OtherPB.Values)
    /\ lastOp' = [kind |-> "merge", pre |-> fact, arg |-> OtherPB, vc |-> <<0, 0, 0, 0>>]
    /\ nops' = nops + 1
    /\ UNCHANGED <<mergeVars, solverVars>>

SetOverdef ==
    /\ nops < MaxOps
    /\ fact' = setOverdef(fact)
    /\ lastOp' = [kind |-> "setOverdef", pre |-> fact, arg |-> NullPB, vc |-> <<0, 0, 0, 0>>]
    /\ nops' = nops + 1
    /\ UNCHANGED <<held, mergeVars, solverVars>>

NextPB ==
    \/ \E VC \in InsertRefs : Insert(VC)
    \/ \E OtherPB \in OperandFacts : Merge(OtherPB)
    \/ SetOverdef

SpecPB == InitPB /\ [][NextPB]_vars

(***************************************************************************)
(* Properties of the lattice (checked under SpecPB).                       *)
(***************************************************************************)
exactlyOverdef(P) == P.Overdef /\ P.Values = <<>>

\* A fact as the solver builds them: overdefined, or a non-empty SCALAR or
\* POINTER set.
typedFact(P) == P.Overdef \/ (Len(P.Values) > 0 /\ P.Type \in {"PB", "Scalar"})

\* C1: once more than PBMAX distinct ValCtxs have been given to a fact by
\* insert / merge, the fact is exactly overdefined (Overdef, no Values), and
\* an overdefined fact is still exactly overdefined after any insert or merge.
C1_CapCorrectness ==
    /\ Cardinality(held) > PBMAX => exactlyOverdef(fact)
    /\ (lastOp.kind # "none" /\ lastOp.pre.Overdef) => exactlyOverdef(fact)

C1_Witness ==
    /\ lastOp.kind = "insert"
    /\ ~lastOp.pre.Overdef
    /\ Len(lastOp.pre.Values) = PBMAX
    /\ Cardinality(held) = PBMAX + 1
    /\ exactlyOverdef(fact)

\* C2: for initialised A and B, A.merge(B) is overdefined if A or B is
\* overdefined or their types differ or the union of the two value sets has
\* more than PBMAX elements; otherwise it holds exactly that union, each
\* element once.
C2_MergeRule ==
    (lastOp.kind = "merge" /\ typedFact(lastOp.pre) /\ typedFact(lastOp.arg)) =>
        LET A == lastOp.pre
            B == lastOp.arg
            U == Range(A.Values) \cup Range(B.Values)
        IN IF A.Overdef \/ B.Overdef \/ A.Type # B.Type \/ Cardinality(U) > PBMAX
           THEN exactlyOverdef(fact)
           ELSE /\ ~fact.Overdef
                /\ Range(fact.Values) = U
                /\ Len(fact.Values) = Cardinality(U)

C2_Witness ==
    /\ lastOp.kind = "merge"
    /\ ~lastOp.pre.Overdef /\ ~lastOp.arg.Overdef
    /\ lastOp.pre.Type = "PB" /\ lastOp.arg.Type = "PB"
    /\ Len(lastOp.pre.Values) > 1 /\ Len(lastOp.arg.Values) > 1
    /\ Range(lastOp.pre.Values) \cap Range(lastOp.arg.Values) # {}
    /\ ~(Range(lastOp.arg.Values) \subseteq Range(lastOp.pre.Values))
    /\ ~fact.Overdef

\* C3: the uninitialised fact is the identity of merge: merging it into an
\* initialised, not overdefined fact A leaves A unchanged; merging A into it
\* yields A; and a type difference alone makes the result overdefined only
\* when both sides are initialised.
C3_UnknownIsIdentity ==
    lastOp.kind = "merge" =>
        /\ (lastOp.arg = NullPB /\ typedFact(lastOp.pre) /\ ~lastOp.pre.Overdef)
               => fact = lastOp.pre
        /\ (lastOp.pre = NullPB /\ typedFact(lastOp.arg) /\ ~lastOp.arg.Overdef)
               => fact = lastOp.arg
        /\ (fact.Overdef /\ ~lastOp.pre.Overdef /\ ~lastOp.arg.Overdef
               /\ Cardinality(Range(lastOp.pre.Values) \cup Range(lastOp.arg.Values)) <= PBMAX)
               => (isInitialised(lastOp.pre) /\ isInitialised(lastOp.arg))

(***************************************************************************)
(* SpecMerge: one merge point (PHI, select or call) whose inputs are drawn *)
(* from MergeInputs; getMergeBasePointer is run on the inputs in the order *)
(* of the IR and then with the inputs visited in another order.            *)
(***************************************************************************)
liveInput(valid, P) == [dead |-> FALSE, valid |-> valid, pb |-> P]

deadInput(valid, P) == [dead |-> TRUE, valid |-> valid, pb |-> P]

MergeInputs ==
    { liveInput(FALSE, NullPB),
      liveInput(TRUE, getOverdef),
      liveInput(TRUE, rangeFact("PB", 1, 1)),
      liveInput(TRUE, rangeFact("PB", 1, PBMAX)),
      liveInput(TRUE, rangeFact("PB", NumRefs, NumRefs)),
      liveInput(TRUE, rangeFact("Scalar", 1, 1)),
      deadInput(TRUE, rangeFact("PB", 2, 2)),
      deadInput(FALSE, NullPB) }

Perms(n) == { p \in [1..n -> 1..n] : \A i, j \in 1..n : p[i] = p[j] => i = j }

permute(s, p) == [i \in 1..Len(s) |-> s[p[i]]]

InitMerge ==
    /\ IdlePB
    /\ IdleSolver
    /\ mkind \in {"PHI", "Select", "Call", "CallNotInlined"}
    /\ \E n \in 1..MaxPreds : mpreds \in [1..n -> MergeInputs]
    /\ mkind = "Select" => (Len(mpreds) = 2 /\ \A i \in 1..2 : ~mpreds[i].dead)
    /\ mfin \in BOOLEAN
    /\ mperm = <<>>
    /\ mout1 = NoOut
    /\ mout2 = NoOut
    /\ mphase = 0

\* updateBasePointer calls getMergeBasePointer with a fresh NewPB.
EvalInOrder ==
    /\ mphase = 0
    /\ mout1' = getMergeBasePointer(mkind, mpreds, mfin, NullPB)
    /\ mphase' = 1
    /\ UNCHANGED <<pbVars, solverVars, mkind, mpreds, mfin, mperm, mout2>>

EvalPermuted(p) ==
    /\ mphase = 1
    /\ mperm' = p
    /\ mout2' = getMergeBasePointer(mkind, permute(mpreds, p), mfin, NullPB)
    /\ mphase' = 2
    /\ UNCHANGED <<pbVars, solverVars, mkind, mpreds, mfin, mout1>>

NextMerge ==
    \/ EvalInOrder
    \/ \E p \in Perms(Len(mpreds)) : EvalPermuted(p)

SpecMerge == InitMerge /\ [][NextMerge]_vars

\* The merge point evaluated once, with its inputs in the order of the IR.
SpecMergeOnce == InitMerge /\ [][EvalInOrder]_vars

(***************************************************************************)
(* Properties of merge points (checked under SpecMerge).                   *)
(***************************************************************************)
\* The inputs that can feed the merge point, as a set of positions.
feasible ==
    { i \in 1..Len(mpreds) : mkind = "Select" \/ ~mpreds[i].dead }

\* The join of the facts of the feasible inputs that have one, stated on
\* sets: overdefined or the set of values.
joinOverdef ==
    \/ \E i \in feasible : mpreds[i].valid /\ mpreds[i].pb.Overdef
    \/ \E i, j \in feasible :
          mpreds[i].valid /\ mpreds[j].valid /\ mpreds[i].pb.Type # mpreds[j].pb.Type
    \/ Cardinality(UNION { Range(mpreds[i].pb.Values) : i \in { j \in feasible : mpreds[j].valid } }) > PBMAX

joinValues ==
    UNION { Range(mpreds[i].pb.Values) : i \in { j \in feasible : mpreds[j].valid } }

\* C4: the fact getMergeBasePointer computes for a merge point is the same,
\* under operator== of PointerBase, whatever the order in which its inputs
\* are visited, in the optimistic and in the pessimistic phase.
C4_MergeOrderIndependent ==
    mphase = 2 => (mout1.ret = mout2.ret /\ PBEq(mout1.pb, mout2.pb))

C4_Witness ==
    /\ mphase = 2
    /\ mkind = "PHI"
    /\ Len(mpreds) = 3
    /\ mperm = <<3, 1, 2>>
    /\ \A i \in 1..3 : ~mpreds[i].dead /\ mpreds[i].valid /\ ~mpreds[i].pb.Overdef
    /\ mpreds[1].pb # mpreds[3].pb
    /\ ~mout2.pb.Overdef
    /\ mout1.pb.Values # mout2.pb.Values

\* C5: at a PHI, select or inlined call a feasible input without a fact
\* contributes nothing when finalise is false (the result is the join of the
\* other feasible inputs) and makes the result overdefined when finalise is
\* true.
C5_TwoPhaseRule ==
    (mphase >= 1 /\ mkind # "CallNotInlined") =>
        IF mfin /\ \E i \in feasible : ~mpreds[i].valid
        THEN mout1.ret /\ exactlyOverdef(mout1.pb)
        ELSE /\ mout1.ret = (\E i \in feasible : mpreds[i].valid)
             /\ IF joinOverdef THEN exactlyOverdef(mout1.pb)
                ELSE ~mout1.pb.Overdef /\ Range(mout1.pb.Values) = joinValues

\* Two live incoming edges, one carrying {p} and the other no fact, in the
\* pessimistic phase.
C5_Witness ==
    /\ mphase >= 1
    /\ mkind = "PHI"
    /\ mfin
    /\ mpreds = <<liveInput(TRUE, rangeFact("PB", 1, 1)), liveInput(FALSE, NullPB)>>
    /\ exactlyOverdef(mout1.pb)

(***************************************************************************)
(* Spec: the solver driver over one program in the root context.           *)
(*                                                                         *)
(* The analysed function (values are numbered; the number is the index in  *)
(* prog, constants and globals have numbers of their own):                 *)
(*                                                                         *)
(*    1  arg                           argument of the root function       *)
(*    2  x  = phi [c1, X]              X is c2, arg or c1                  *)
(*    3  S0 : store x -> @g                                                *)
(*   loop 1:                                                               *)
(*    4  p  = phi [x, q]               header PHI                          *)
(*    5  q  = select arg, p, c3                                            *)
(*    6  S1 : store q -> @g                                                *)
(*    7  l  = load @g                  reaches S1 and S0                   *)
(*   after loop 1:                                                         *)
(*    8  pp = select arg, @h, P        P is @h or @g                       *)
(*    9  S2 : store c5 -> pp                                               *)
(*   10  r  = load @g                  passes S2, reaches S1               *)
(*   11  y  = zext r                                                       *)
(*   12  f  = load @h                  passes S2, reaches the entry        *)
(*   loop 2:                                                               *)
(*   13  i  = phi [c0, n]              header PHI                          *)
(*   14  n  = add i, c1                                                    *)
(*   after loop 2:                                                         *)
(*   15  e  = phi [n]                  exit PHI                            *)
(*   16  k  = load @k                  reaches the entry; @k = c7          *)
(*   17  call ext()                    a call that is not inlined (yet)    *)
(*   18  call memcpy(...)              a memory intrinsic                  *)
(*   19  m  = load @g                  passes the call 17, reaches S0      *)
(*   20  w  = load @g                  passes the memcpy 18, reaches S0    *)
(***************************************************************************)
\* The root InlineAttempt (parent == 0); context 0 is the null context of
\* constants.
RootCtx == 1

\* getLoopContext() of the root context: no loop.
NoLoop == 0

\* Global variables @g, @h (no initialiser) and @k (initialiser c7).
GlobalG == 50

GlobalH == 51

GlobalK == 52

\* ConstantInt n of the narrow integer type is value ConstBase + n, of the
\* wide type (the result type of zext) WideBase + n.
ConstBase == 100

WideBase == 200

\* The client queues at most MaxSeeds values before a run of the driver, and
\* the driver is run at most MaxRuns times.
MaxSeeds == 2

MaxRuns == 2

\* The functions called: an external function and the memcpy intrinsic.
ExtFn == 60

MemcpyFn == 61

Globals == {GlobalG, GlobalH, GlobalK}

C(n) == ConstBase + n

Instr(op, ops, scope) == [op |-> op, ops |-> ops, scope |-> scope, walk |-> <<>>, top |-> FALSE]

\* A load: walk lists the stores its backward walk visits, top tells whether
\* the walk reaches the entry of the root function.
LoadInst(ptr, scope, walk, top) ==
    [op |-> "Load", ops |-> <<ptr>>, scope |-> scope, walk |-> walk, top |-> top]

Program(X, P) ==
    << Instr("Argument", <<>>, NoLoop),
       Instr("PHI", <<C(1), X>>, NoLoop),
       Instr("Store", <<2, GlobalG>>, NoLoop),
       Instr("PHI", <<2, 5>>, 1),
       Instr("Select", <<1, 4, C(3)>>, 1),
       Instr("Store", <<5, GlobalG>>, 1),
       LoadInst(GlobalG, 1, <<6, 3>>, FALSE),
       Instr("Select", <<1, GlobalH, P>>, NoLoop),
       Instr("Store", <<C(5), 8>>, NoLoop),
       LoadInst(GlobalG, NoLoop, <<9, 6>>, FALSE),
       Instr("ZExt", <<10>>, NoLoop),
       LoadInst(GlobalH, NoLoop, <<9>>, TRUE),
       Instr("PHI", <<C(0), 14>>, 2),
       Instr("Add", <<13, C(1)>>, 2),
       Instr("PHI", <<14>>, NoLoop),
       LoadInst(GlobalK, NoLoop, <<>>, TRUE),
       Instr("Call", <<ExtFn>>, NoLoop),
       Instr("Call", <<MemcpyFn>>, NoLoop),
       LoadInst(GlobalG, NoLoop, <<17, 3>>, FALSE),
       LoadInst(GlobalG, NoLoop, <<18, 3>>, FALSE) >>

Programs == { Program(X, P) : X \in {C(2), 1, C(1)}, P \in {GlobalH, GlobalG} }

\* Values the client may queue for the solver.
SeedValues == {2, 4, 10, 12, 13, 15, 16}

Values == 1..Len(prog)

isGlobalValue(V) == V \in Globals

isConstantInt(V) == V >= ConstBase

isConstant(V) == isGlobalValue(V) \/ isConstantInt(V)

isInstruction(V) == V \in Values /\ prog[V].op # "Argument"

getOpcode(V) == prog[V].op

getOperand(I, k) == prog[I].ops[k]

getValueScope(V) == IF V \in Values THEN prog[V].scope ELSE NoLoop

\* L->contains(M) for the loops of the program, none of which is nested.
contains(L, M) == L = M

\* getCalledFunction(CI), isa<MemIntrinsic>(CI) and functionIsBlacklisted(CF):
\* no function of the program is on the blacklist.
getCalledFunction(CI) == getOperand(CI, 1)

isMemIntrinsic(CI) == getCalledFunction(CI) = MemcpyFn

functionIsBlacklisted(CF) == FALSE

\* getInlineAttempt(CI): the call has been inlined.  The body of the
\* external function, once available, writes no memory.
getInlineAttempt(CI) == CI \in inlineChildren

Users(V) == { U \in Values : \E k \in 1..Len(prog[U].ops) : prog[U].ops[k] = V }

\* The basic blocks that matter: ArmBlock is the empty predecessor of the
\* block of x through which the second incoming value of x arrives;
\* ThenBlock holds pp and S2 and is branched around; MainBlock stands for
\* every other block.
MainBlock == 1

ArmBlock == 2

ThenBlock == 3

\* The blocks the integrator may find dead.
DeadCandidates == {ArmBlock, ThenBlock}

\* I->getParent().
getParent(I) == IF I \in {8, 9} THEN ThenBlock ELSE MainBlock

\* PN->getIncomingBlock(k - 1).
getIncomingBlock(PN, k) == IF PN = 2 /\ k = 2 THEN ArmBlock ELSE MainBlock

blockIsDead(BB) == BB \in deadBlocks

\* A block is dead together with the edges into it and out of it.
edgeIsDead(B1, B2) == blockIsDead(B1) \/ blockIsDead(B2)

hasDefinitiveInitializer(GV) == GV = GlobalK

getInitializer(GV) == C(7)

const_vc(Cst) == make_vc(Cst, 0)

\* Address order of the values: std::sort of a queue orders ValCtxs by the
\* addresses of the values, which follow the numbering or run against it.
addrOf(V) == IF addrDown THEN 0 - V ELSE V

VCAddrLess(V1, V2) ==
    VCLess(<<addrOf(V1[1]), V1[2], V1[3], V1[4]>>, <<addrOf(V2[1]), V2[2], V2[3], V2[4]>>)

RECURSIVE sortUniqueSet(_)
sortUniqueSet(S) ==
    IF S = {} THEN <<>>
    ELSE LET m == CHOOSE x \in S : \A y \in S \ {x} : VCAddrLess(x, y)
         IN  <<m>> \o sortUniqueSet(S \ {m})

\* std::sort followed by std::unique.
sortUnique(q) == sortUniqueSet(Range(q))

(***************************************************************************)
(* The state the handlers read and write, threaded through them as a       *)
(* record: produced and pended collect what a handler pushes on PBProduceQ *)
(* and on producePendingPBChecks.                                          *)
(***************************************************************************)
SolverState ==
    [pointerBases |-> pointerBases,
     improvedValues |-> improvedValues,
     defOrClobberCache |-> defOrClobberCache,
     failedLFACache |-> failedLFACache,
     memWriterEffects |-> memWriterEffects,
     CFGDependentPBLoads |-> CFGDependentPBLoads,
     callBlockedPBLoads |-> callBlockedPBLoads,
     PBsConsideredThisRun |-> PBsConsideredThisRun,
     asserts |-> asserts,
     produced |-> <<>>,
     pended |-> <<>>]

\* assert(cond): a failed assertion is recorded and the run goes on, as in
\* a build without assertions.
assert(s, cond, what) == IF cond THEN s ELSE [s EXCEPT !.asserts = @ \cup {what}]

getDefaultVC(V) == IF isConstant(V) THEN const_vc(V) ELSE make_vc(V, RootCtx)

getReplacement(s, V) ==
    IF isConstant(V) THEN const_vc(V)
    ELSE IF s.improvedValues[V] # <<>> THEN s.improvedValues[V][1]
    ELSE getDefaultVC(V)

setReplacement(s, V, VC) == [s EXCEPT !.improvedValues[V] = <<VC>>]

\* None of the instructions of the program is a GEP or a pointer cast.
getUltimateUnderlyingObject(V) == getDefaultVC(V)

\* PointerBase::get(ValCtx): a global is a pointer base, another constant of
\* non-pointer type a scalar.
PointerBase_get(VC) ==
    IF isGlobalValue(VC[1]) THEN getPB(const_vc(VC[1]), "PB")
    ELSE IF isConstant(VC[1]) THEN getPB(VC, "Scalar")
    ELSE getPB(VC, "PB")

hasResolvedPB(s, V) == getReplacement(s, V) # getDefaultVC(V)

\* A lookup returns <<>> (false) or <<PB>> (true, OutPB = PB).
getPointerBaseLocal(s, V) ==
    IF isGlobalValue(V) THEN <<PointerBase_get(const_vc(V))>>
    ELSE IF V \in Values THEN s.pointerBases[V]
    ELSE <<>>

\* The root context has no loop context, hence no parent to fall to.
getPointerBaseFalling(s, V) == getPointerBaseLocal(s, V)

\* No loop of the program has a PeelAttempt.
getPointerBaseRising(s, V, VL) == getPointerBaseFalling(s, V)

getPointerBase(s, V, UserI) ==
    IF isConstant(V) THEN getPointerBaseLocal(s, V)
    ELSE LET MyL == NoLoop
             VL == getValueScope(V)
             UserL == getValueScope(UserI)
         IN  IF UserL = MyL /\ VL # UserL /\ (UserL = NoLoop \/ contains(UserL, VL))
             THEN getPointerBaseRising(s, V, VL)
             ELSE IF VL # UserL /\ (VL = NoLoop \/ contains(VL, UserL))
                                /\ (VL = NoLoop \/ contains(VL, MyL))
             THEN getPointerBaseFalling(s, V)
             ELSE getPointerBaseLocal(s, V)

\* UserI = 0 stands for the default argument (no user).
getValSetOrReplacement(s, V, UserI) ==
    LET Repl == getReplacement(s, V)
        ReplUO == IF Repl[2] # 0 THEN getUltimateUnderlyingObject(Repl[1]) ELSE Repl
    IN  IF isConstant(ReplUO[1]) THEN <<PointerBase_get(ReplUO)>>
        ELSE IF UserI # 0 THEN getPointerBase(s, V, UserI)
        ELSE getPointerBaseFalling(s, V)

(***************************************************************************)
(* Transfer functions.  Each returns [ret, pb]: the bool result and the    *)
(* PointerBase left in the reference parameter.                            *)
(***************************************************************************)
\* ConstantExpr::getCast folded: zext of a narrow constant is the wide
\* constant of the same number.
foldCast(Cst) == IF Cst < WideBase THEN Cst - ConstBase + WideBase ELSE Cst

\* The bitwise opcodes on the low n bits of a and b.
RECURSIVE bitwise(_, _, _, _)
bitwise(Opcode, a, b, n) ==
    IF n = 0 THEN 0
    ELSE (IF Opcode = "And" THEN (a % 2) * (b % 2)
          ELSE IF Opcode = "Or" THEN (a % 2) + (b % 2) - (a % 2) * (b % 2)
          ELSE ((a % 2) + (b % 2)) % 2)
         + 2 * bitwise(Opcode, a \div 2, b \div 2, n - 1)

\* ConstantExpr::get(Opcode, ...) folded, in the arithmetic of the narrow
\* type (it has WideBase - ConstBase values).
foldBinop(Opcode, C1, C2) ==
    LET a == C1 - ConstBase
        b == C2 - ConstBase
        r == IF Opcode = "Add" THEN a + b
             ELSE IF Opcode = "Sub" THEN a - b
             ELSE bitwise(Opcode, a, b, 7)
    IN  ConstBase + (r % (WideBase - ConstBase))

RECURSIVE unaryFoldWith(_, _, _, _, _)
unaryFoldWith(Opcode, PB, V1, C2, i) ==
    IF i > Len(V1) \/ PB.Overdef THEN PB
    ELSE unaryFoldWith(Opcode, merge(PB, PointerBase_get(const_vc(foldBinop(Opcode, V1[i][1], C2)))),
                       V1, C2, i + 1)

RECURSIVE unaryFold(_, _, _)
unaryFold(PB, ArgVals, i) ==
    IF i > Len(ArgVals) \/ PB.Overdef THEN PB
    ELSE unaryFold(merge(PB, PointerBase_get(const_vc(foldCast(ArgVals[i][1])))), ArgVals, i + 1)

\* typed: the assertion on the type of the operand's fact holds or is not
\* reached.
updateUnaryValSet(s, I, PB) ==
    LET fromArg(Arg) ==
            IF Arg = <<>> THEN [ret |-> FALSE, pb |-> PB, typed |-> TRUE]
            ELSE IF Arg[1].Overdef THEN [ret |-> TRUE, pb |-> Arg[1], typed |-> TRUE]
            ELSE IF Arg[1].Type = "Scalar"
                 THEN IF getOpcode(I) \in {"SExt", "ZExt", "Trunc"}
                      THEN [ret |-> TRUE, pb |-> unaryFold(PB, Arg[1].Values, 1),
                            typed |-> TRUE]
                      ELSE [ret |-> FALSE, pb |-> PB, typed |-> TRUE]
            ELSE [ret |-> TRUE, pb |-> Arg[1], typed |-> Arg[1].Type # "Unknown"]
    IN  fromArg(getValSetOrReplacement(s, getOperand(I, 1), I))

\* Only the last pair of operand values is folded.
binopFold_lastOnly(Opcode, PB, V1, V2, i, j) ==
    IF V1 = <<>> \/ V2 = <<>> \/ PB.Overdef THEN PB
    ELSE merge(PB, PointerBase_get(const_vc(foldBinop(Opcode, V1[Len(V1)][1], V2[Len(V2)][1]))))

\* The fold without the inner loop: every value of the first operand is
\* folded with the first value of the second only.
binopFold_firstColumn(Opcode, PB, V1, V2, i, j) ==
    IF V2 = <<>> THEN PB
    ELSE unaryFoldWith(Opcode, PB, V1, V2[1][1], 1)

\* The inner loop of the fold: one value of the first operand with every
\* value of the second.
RECURSIVE binopFoldRow(_, _, _, _, _)
binopFoldRow(Opcode, PB, C1, V2, j) ==
    IF j > Len(V2) \/ PB.Overdef THEN PB
    ELSE binopFoldRow(Opcode,
                      merge(PB, PointerBase_get(const_vc(foldBinop(Opcode, C1, V2[j][1])))),
                      C1, V2, j + 1)

RECURSIVE binopFold(_, _, _, _, _, _)
binopFold(Opcode, PB, V1, V2, i, j) ==
    IF i > Len(V1) \/ PB.Overdef THEN PB
    ELSE binopFold(Opcode, binopFoldRow(Opcode, PB, V1[i][1], V2, j), V1, V2, i + 1, 1)

updateBinopValSet(s, I, PB) ==
    LET fromOps(Op1, Op2) ==
            LET Op1Valid == Op1 # <<>>
                Op2Valid == Op2 # <<>>
                Op1PB == IF Op1Valid THEN Op1[1] ELSE NullPB
                Op2PB == IF Op2Valid THEN Op2[1] ELSE NullPB
                RetType == IF Op1PB.Type = "PB" \/ Op2PB.Type = "PB" THEN "PB" ELSE "Scalar"
            IN  IF ~Op1Valid /\ ~Op2Valid THEN [ret |-> FALSE, pb |-> PB]
                ELSE IF Op1Valid /\ Op2Valid /\ (Op1PB.Overdef \/ Op2PB.Overdef)
                THEN [ret |-> TRUE, pb |-> getOverdef]
                ELSE IF RetType = "PB"
                THEN IF getOpcode(I) \in {"Add", "Sub"}
                     THEN IF Op1PB.Type = "PB" /\ Op2PB.Type = "PB"
                          THEN [ret |-> TRUE, pb |-> getOverdef]
                          ELSE [ret |-> TRUE, pb |-> IF Op1PB.Type = "PB" THEN Op1PB ELSE Op2PB]
                     ELSE [ret |-> FALSE, pb |-> PB]
                ELSE IF Op1PB.Type # "Scalar" \/ Op2PB.Type # "Scalar"
                THEN [ret |-> FALSE, pb |-> PB]
                ELSE [ret |-> TRUE, pb |-> binopFold(getOpcode(I), PB, Op1PB.Values,
                                                 Op2PB.Values, 1, 1)]
    IN  fromOps(getValSetOrReplacement(s, getOperand(I, 1), 0),
                getValSetOrReplacement(s, getOperand(I, 2), 0))

\* The incoming values of a PHI, each with the deadness of its edge, or the
\* two arms of a select, each with the result of getValSetOrReplacement.
mergeInput(s, I, V, dead) ==
    LET input(VPB) ==
            IF VPB = <<>> THEN [dead |-> dead, valid |-> FALSE, pb |-> NullPB]
            ELSE [dead |-> dead, valid |-> TRUE, pb |-> VPB[1]]
    IN  input(getValSetOrReplacement(s, V, I))

mergeInputs(s, I) ==
    IF getOpcode(I) = "Select"
    THEN <<mergeInput(s, I, getOperand(I, 2), FALSE), mergeInput(s, I, getOperand(I, 3), FALSE)>>
    ELSE [k \in 1..Len(prog[I].ops) |->
              mergeInput(s, I, getOperand(I, k),
                         edgeIsDead(getIncomingBlock(I, k), getParent(I)))]

\* InlineAttempt::updateHeaderPHIPB: the root context is no PeelIteration.
updateHeaderPHIPB(I) == FALSE

\* InlineAttempt::getArgBasePointer: the root function has no parent.
getArgBasePointer(A) == <<>>

(***************************************************************************)
(* Load forwarding in PB mode.                                             *)
(***************************************************************************)
LoadForwardAttempt(fin) ==
    [PB |-> NullPB, PBOptimistic |-> ~fin, CompletelyExplored |-> ~fin,
     ReachedTop |-> FALSE, ReachedTopStr |-> "",
     DefOrClobberInstructions |-> <<>>, IgnoredClobbers |-> <<>>,
     OverdefReasons |-> <<>>]

setPBOverdef(A, reason) ==
    [A EXCEPT !.OverdefReasons = Append(@, reason), !.PB = getOverdef]

\* addPBDefn recording a reason whenever the merge ends overdefined.
addPBDefn_anyOverdef(A, NewPB) ==
    LET merged == merge(A.PB, NewPB)
    IN  [A EXCEPT !.PB = merged,
                  !.OverdefReasons =
                      IF merged.Overdef /\ ~A.PB.Overdef
                      THEN Append(@, "Fan-in") ELSE @]

addPBDefn(A, NewPB) ==
    LET merged == merge(A.PB, NewPB)
    IN  [A EXCEPT !.PB = merged,
                  !.OverdefReasons =
                      IF merged.Overdef /\ ~A.PB.Overdef /\ ~NewPB.Overdef
                      THEN Append(@, "Fan-in") ELSE @]

\* The attempt is marked without its result being made overdefined.
reachedTop_markOnly(A, str) ==
    [A EXCEPT !.ReachedTop = TRUE, !.ReachedTopStr = str]

reachedTop(A, str) ==
    [setPBOverdef(A, str) EXCEPT !.ReachedTop = TRUE, !.ReachedTopStr = str]

basesMayAlias(VC1, VC2) ==
    VC1[1] = VC2[1] /\ (VC1[2] = 0 \/ VC2[2] = 0 \/ VC1[2] = VC2[2])

\* The pointer bases an alias query with usePBKnowledge may use: <<>> when
\* the pointer has no finite set of bases.
knownBases(s, Ptr) ==
    LET bases(PB) ==
            IF PB # <<>> /\ ~PB[1].Overdef /\ PB[1].Type = "PB" THEN <<Range(PB[1].Values)>>
            ELSE <<>>
    IN  bases(getValSetOrReplacement(s, Ptr, 0))

\* AliasAnalysis::aliasHypothetical for the accesses of the program, all of
\* one size: two globals alias iff they are the same; a pointer that is no
\* global may alias anything, unless pointer-base knowledge is asked for and
\* no base of the one may alias a base of the other.
aliasHypothetical(s, SPtr, LPtr, usePBKnowledge) ==
    IF isGlobalValue(SPtr) /\ isGlobalValue(LPtr)
    THEN IF SPtr = LPtr THEN "MustAlias" ELSE "NoAlias"
    ELSE LET byBases(SB, LB) ==
                 IF usePBKnowledge /\ SB # <<>> /\ LB # <<>>
                    /\ \A b1 \in SB[1], b2 \in LB[1] : ~basesMayAlias(b1, b2)
                 THEN "NoAlias"
                 ELSE "MayAlias"
         IN  byBases(knownBases(s, SPtr), knownBases(s, LPtr))

\* AliasAnalysis::getModRefInfo of a store against the loaded location.
getModRefInfo(s, Inst, LPtr, usePBKnowledge) ==
    IF getOpcode(Inst) = "Store"
       /\ aliasHypothetical(s, getOperand(Inst, 2), LPtr, usePBKnowledge) = "NoAlias"
    THEN "NoModRef"
    ELSE "Mod"

getDef(Inst, ICtx) == [kind |-> "Def", inst |-> make_vc(Inst, ICtx)]

getClobber(Inst, ICtx) == [kind |-> "Clobber", inst |-> make_vc(Inst, ICtx)]

\* addPBResults: a defining store contributes the fact of the value it
\* stores; without such a fact it contributes nothing in optimistic mode and
\* makes the result overdefined in pessimistic mode.  A clobber is ignored
\* in optimistic mode and makes the result overdefined in pessimistic mode.
RECURSIVE addPBResults(_, _, _, _)
addPBResults(s, A, Results, i) ==
    IF i > Len(Results) THEN A
    ELSE LET R == Results[i]
             SI == R.inst[1]
             A1(VPB) == IF R.kind = "Def"
                        THEN IF VPB # <<>> THEN addPBDefn(A, VPB[1])
                             ELSE IF A.PBOptimistic THEN A
                             ELSE setPBOverdef(A, "Defined by a value without pointer base")
                        ELSE IF A.PBOptimistic
                             THEN [A EXCEPT !.IgnoredClobbers = Append(@, R.inst)]
                             ELSE setPBOverdef(A, "Clobbered")
         IN  addPBResults(s, A1(getValSetOrReplacement(s, getOperand(SI, 1), SI)),
                          Results, i + 1)

\* The dependency of load LI on the instruction Inst of context ICtx, as
\* the replay of a cache entry finds it: <<>> when there is none.
storeDependency(s, LI, Inst, ICtx, fin) ==
    IF getModRefInfo(s, Inst, getOperand(LI, 1), fin) = "NoModRef" THEN <<>>
    ELSE IF getOpcode(Inst) = "Store"
         THEN LET byAlias(AR) ==
                      IF AR = "NoAlias" THEN <<>>
                      ELSE IF AR = "MayAlias" THEN <<getClobber(Inst, ICtx)>>
                      ELSE <<getDef(Inst, ICtx)>>
              IN  byAlias(aliasHypothetical(s, getOperand(Inst, 2), getOperand(LI, 1), fin))
         ELSE <<getClobber(Inst, ICtx)>>

\* A cached global initialiser is passed over.
RECURSIVE replayCache_skipInitialiser(_, _, _, _, _, _)
replayCache_skipInitialiser(s, LI, CEntry, fin, A, i) ==
    IF i > Len(CEntry)
    THEN [A |-> A, NLResults |-> <<>>]
    ELSE LET VC == CEntry[i]
             rest == replayCache_skipInitialiser(s, LI, CEntry, fin, A, i + 1)
         IN  IF isConstant(VC[1]) THEN rest
             ELSE [A |-> rest.A,
                   NLResults |-> storeDependency(s, LI, VC[1], VC[2], fin) \o rest.NLResults]

RECURSIVE replayCache(_, _, _, _, _, _)
replayCache(s, LI, CEntry, fin, A, i) ==
    IF i > Len(CEntry)
    THEN [A |-> A, NLResults |-> <<>>]
    ELSE LET VC == CEntry[i]
         IN  IF isConstant(VC[1])
             THEN replayCache(s, LI, CEntry, fin, addPBDefn(A, PointerBase_get(VC)), i + 1)
             ELSE LET rest == replayCache(s, LI, CEntry, fin, A, i + 1)
                  IN  [A |-> rest.A,
                       NLResults |-> storeDependency(s, LI, VC[1], VC[2], fin) \o rest.NLResults]

(***************************************************************************)
(* 64-bit words.  A uint64_t is four limbs of 16 bits, the most            *)
(* significant first; an int64_t is a sign and a magnitude.                *)
(***************************************************************************)
LimbBase == 65536

U64(n) == <<0, 0, 0, n>>

RECURSIVE subLimbs(_, _, _, _)
subLimbs(a, b, i, borrow) ==
    IF i = 0 THEN <<>>
    ELSE subLimbs(a, b, i - 1, IF a[i] - b[i] - borrow < 0 THEN 1 ELSE 0)
         \o <<(a[i] - b[i] - borrow + LimbBase) % LimbBase>>

\* a - b modulo 2^64.
sub64(a, b) == subLimbs(a, b, 4, 0)

less64(a, b) == \E i \in 1..4 : a[i] < b[i] /\ \A j \in 1..(i - 1) : a[j] = b[j]

\* std::min(a, b).
min64(a, b) == IF less64(b, a) THEN b ELSE a

int64(n) == [neg |-> n < 0, mag |-> U64(IF n < 0 THEN -n ELSE n)]

INT64_MAX == [neg |-> FALSE, mag |-> <<32767, 65535, 65535, 65535>>]

INT64_MIN == [neg |-> TRUE, mag |-> <<32768, 0, 0, 0>>]

\* (uint64_t)x of an int64_t x: the two's complement of a negative value.
castToU64(x) == IF x.neg THEN sub64(U64(0), x.mag) ELSE x.mag

VCNull == make_vc(0, 0)

\* The window of a load into the initializer of its global: the size of
\* the initializer, the offset of the symbolic expression, the store size
\* of the loaded type.
Window(GVCSize, SymExprOffset, LoadSize) ==
    [GVCSize |-> U64(GVCSize), SymExprOffset |-> SymExprOffset, LoadSize |-> U64(LoadSize)]

\* FirstNotDef == LoadSize, computed on uint64_t.
firstNotDefIsLoadSize(W) ==
    min64(sub64(W.GVCSize, castToU64(W.SymExprOffset)), W.LoadSize) = W.LoadSize

\* extractAggregateMemberAt is called.
consultsInitializer(GV, W) ==
    isGlobalValue(GV) /\ hasDefinitiveInitializer(GV) /\ firstNotDefIsLoadSize(W)

\* addStartOfScopePB for a pointer with a symbolic expression of base GV;
\* FieldVC is what extractAggregateMemberAt returns if it is called.
startOfScopePB(GV, W, FieldVC, A) ==
    IF consultsInitializer(GV, W) /\ FieldVC # VCNull
    THEN addPBDefn([A EXCEPT !.DefOrClobberInstructions = Append(@, FieldVC)],
                   PointerBase_get(FieldVC))
    ELSE reachedTop(A, "Reached main")

\* The loads of the programs read the whole initializer of their global.
addStartOfScopePB(LI, A) ==
    startOfScopePB(getOperand(LI, 1), Window(8, int64(0), 8),
                   const_vc(getInitializer(getOperand(LI, 1))), A)

\* tryResolveLoad: the backward walk from the load over the memory writers
\* it can reach, then the entry of the function if the walk gets there.  A
\* dead block is not entered, and the walk through an inlined call finds
\* no writer in it.
RECURSIVE walkStores(_, _, _, _, _)
walkStores(s, LI, fin, Stores, i) ==
    IF i > Len(Stores) THEN <<>>
    ELSE IF blockIsDead(getParent(Stores[i])) \/ getInlineAttempt(Stores[i])
    THEN walkStores(s, LI, fin, Stores, i + 1)
    ELSE storeDependency(s, LI, Stores[i], RootCtx, fin) \o walkStores(s, LI, fin, Stores, i + 1)

RECURSIVE resultInsts(_, _)
resultInsts(Results, kind) ==
    IF Results = <<>> THEN <<>>
    ELSE (IF Head(Results).kind = kind THEN <<Head(Results).inst>> ELSE <<>>)
         \o resultInsts(Tail(Results), kind)

\* Step 2 of the forwarder: the symbolic expression of the load's pointer is
\* a base and a chain of GEPs and casts.  A global is its own base; a PHI
\* or a select is none.
symbolicPointerBuilt(LI) == isGlobalValue(getOperand(LI, 1))

tryResolveLoad(s, LI, A) ==
    LET A2(Results, A1) ==
            [A1 EXCEPT !.DefOrClobberInstructions =
                 @ \o resultInsts(Results, "Def")
                   \o (IF A.PBOptimistic THEN <<>> ELSE resultInsts(Results, "Clobber"))]
        walk(Results) ==
            IF prog[LI].top
            THEN addStartOfScopePB(LI, A2(Results, addPBResults(s, A, Results, 1)))
            ELSE A2(Results, addPBResults(s, A, Results, 1))
        vague == [setPBOverdef(A, "Symbolic pointer unresolvable")
                      EXCEPT !.CompletelyExplored = FALSE]
    IN  IF ~symbolicPointerBuilt(LI) THEN vague
        ELSE walk(walkStores(s, LI, ~A.PBOptimistic, prog[LI].walk, 1))

RECURSIVE addMemWriterEffects(_, _, _, _)
addMemWriterEffects(mwe, CEntry, LI, i) ==
    IF i > Len(CEntry) THEN mwe
    ELSE LET VC == CEntry[i]
         IN  IF VC[2] # 0 /\ getOpcode(VC[1]) = "Store"
             THEN addMemWriterEffects([mwe EXCEPT ![VC[1]] = @ \cup {<<LI, RootCtx>>}],
                                      CEntry, LI, i + 1)
             ELSE addMemWriterEffects(mwe, CEntry, LI, i + 1)

\* The call of a cache entry that may yet be inlined.
blocksLoads(VC) ==
    /\ VC[2] # 0
    /\ getOpcode(VC[1]) = "Call"
    /\ ~isMemIntrinsic(VC[1])
    /\ (getCalledFunction(VC[1]) = 0 \/ ~functionIsBlacklisted(getCalledFunction(VC[1])))

\* addCallBlockedPBLoad for each such call of the entry: a push_back.
RECURSIVE addCallBlockedPBLoads(_, _, _, _)
addCallBlockedPBLoads(cbl, CEntry, LI, i) ==
    IF i > Len(CEntry) THEN cbl
    ELSE IF blocksLoads(CEntry[i])
    THEN addCallBlockedPBLoads([cbl EXCEPT ![CEntry[i][1]] = Append(@, <<LI, RootCtx>>)],
                               CEntry, LI, i + 1)
    ELSE addCallBlockedPBLoads(cbl, CEntry, LI, i + 1)

\* removeMemWriterEffect for each store of the entry.
RECURSIVE removeMemWriterEffects(_, _, _, _)
removeMemWriterEffects(mwe, CEntry, LI, i) ==
    IF i > Len(CEntry) THEN mwe
    ELSE LET VC == CEntry[i]
         IN  IF VC[2] # 0 /\ getOpcode(VC[1]) = "Store"
             THEN removeMemWriterEffects([mwe EXCEPT ![VC[1]] = @ \ {<<LI, RootCtx>>}],
                                         CEntry, LI, i + 1)
             ELSE removeMemWriterEffects(mwe, CEntry, LI, i + 1)

\* The negative cache entry is left in place.
zapDefOrClobberCache_positiveOnly(s, LI) ==
    IF s.defOrClobberCache[LI] = <<>> THEN s
    ELSE [s EXCEPT !.memWriterEffects =
                       removeMemWriterEffects(@, s.defOrClobberCache[LI][1], LI, 1),
                   !.defOrClobberCache[LI] = <<>>]

zapDefOrClobberCache(s, LI) ==
    LET s1 == [s EXCEPT !.failedLFACache[LI] = <<>>]
    IN  IF s.defOrClobberCache[LI] = <<>> THEN s1
        ELSE [s1 EXCEPT !.memWriterEffects =
                            removeMemWriterEffects(@, s.defOrClobberCache[LI][1], LI, 1),
                        !.defOrClobberCache[LI] = <<>>]

\* describeLFA: the reasons of an overdefined result, as a sequence.
describeLFA(LFA) ==
    IF LFA.PB.Overdef THEN LFA.OverdefReasons
    ELSE IF Len(LFA.PB.Values) = 0 THEN <<"No defn">>
    ELSE <<"PB">>

\* The caches are written whether or not the attempt was completely
\* explored.
tryForwardLoadPB_cacheIncomplete(s, LI, fin) ==
    LET Attempt == LoadForwardAttempt(fin)
        cached == s.defOrClobberCache[LI]
        failCached == s.failedLFACache[LI]
        sa == assert(s, ~fin, "Instruction considered for the first time in pessimistic phase?")
        registered(walked) ==
            LET CEntry == walked.DefOrClobberInstructions \o walked.IgnoredClobbers
            IN  IF walked.ReachedTop
                THEN [sa EXCEPT !.failedLFACache[LI] = <<walked.ReachedTopStr>>]
                ELSE [sa EXCEPT !.defOrClobberCache[LI] = <<CEntry>>,
                                !.memWriterEffects = addMemWriterEffects(@, CEntry, LI, 1),
                                !.callBlockedPBLoads = addCallBlockedPBLoads(@, CEntry, LI, 1),
                                !.CFGDependentPBLoads = @ \cup {<<LI, RootCtx>>}]
        finish(Final, s1, didWalk) ==
            IF Len(Final.PB.Values) = 0 /\ ~Final.PB.Overdef
            THEN [ret |-> FALSE, pb |-> NullPB, s |-> s1,
                  status |-> describeLFA(Final), walked |-> didWalk]
            ELSE [ret |-> TRUE, pb |-> Final.PB, s |-> s1,
                  status |-> describeLFA(Final), walked |-> didWalk]
        firstAttempt(walked) == finish(walked, registered(walked), TRUE)
        fromCache(replayed) ==
            finish(addPBResults(s, replayed.A, replayed.NLResults, 1), s, FALSE)
    IN  IF failCached # <<>> THEN finish(reachedTop(Attempt, failCached[1]), s, FALSE)
        ELSE IF cached = <<>> THEN firstAttempt(tryResolveLoad(s, LI, Attempt))
        ELSE fromCache(replayCache(s, LI, cached[1], fin, Attempt, 1))

\* Returns true also for an attempt that found no definition.
tryForwardLoadPB_noEmptyTest(s, LI, fin) ==
    LET Attempt == LoadForwardAttempt(fin)
        cached == s.defOrClobberCache[LI]
        failCached == s.failedLFACache[LI]
        sa == assert(s, ~fin, "Instruction considered for the first time in pessimistic phase?")
        registered(walked) ==
            LET CEntry == walked.DefOrClobberInstructions \o walked.IgnoredClobbers
            IN  IF ~walked.CompletelyExplored THEN sa
                ELSE IF walked.ReachedTop
                THEN [sa EXCEPT !.failedLFACache[LI] = <<walked.ReachedTopStr>>]
                ELSE [sa EXCEPT !.defOrClobberCache[LI] = <<CEntry>>,
                                !.memWriterEffects = addMemWriterEffects(@, CEntry, LI, 1),
                                !.callBlockedPBLoads = addCallBlockedPBLoads(@, CEntry, LI, 1),
                                !.CFGDependentPBLoads = @ \cup {<<LI, RootCtx>>}]
        finish(Final, s1, didWalk) ==
            [ret |-> TRUE, pb |-> Final.PB, s |-> s1,
             status |-> describeLFA(Final), walked |-> didWalk]
        firstAttempt(walked) == finish(walked, registered(walked), TRUE)
        fromCache(replayed) ==
            finish(addPBResults(s, replayed.A, replayed.NLResults, 1), s, FALSE)
    IN  IF failCached # <<>> THEN finish(reachedTop(Attempt, failCached[1]), s, FALSE)
        ELSE IF cached = <<>> THEN firstAttempt(tryResolveLoad(s, LI, Attempt))
        ELSE fromCache(replayCache(s, LI, cached[1], fin, Attempt, 1))

\* Returns [ret, pb, s, status, walked]: the bool result, NewPB, the state
\* with the caches as the call leaves them, the forward status recorded for
\* the load, and whether tryResolveLoad was called.
tryForwardLoadPB(s, LI, fin) ==
    LET Attempt == LoadForwardAttempt(fin)
        cached == s.defOrClobberCache[LI]
        failCached == s.failedLFACache[LI]
        sa == assert(s, ~fin, "Instruction considered for the first time in pessimistic phase?")
        \* The caches as a first attempt leaves them.
        registered(walked) ==
            LET CEntry == walked.DefOrClobberInstructions \o walked.IgnoredClobbers
            IN  IF ~walked.CompletelyExplored THEN sa
                ELSE IF walked.ReachedTop
                THEN [sa EXCEPT !.failedLFACache[LI] = <<walked.ReachedTopStr>>]
                ELSE [sa EXCEPT !.defOrClobberCache[LI] = <<CEntry>>,
                                !.memWriterEffects = addMemWriterEffects(@, CEntry, LI, 1),
                                !.callBlockedPBLoads = addCallBlockedPBLoads(@, CEntry, LI, 1),
                                !.CFGDependentPBLoads = @ \cup {<<LI, RootCtx>>}]
        finish(Final, s1, didWalk) ==
            IF Len(Final.PB.Values) = 0 /\ ~Final.PB.Overdef
            THEN [ret |-> FALSE, pb |-> NullPB, s |-> s1,
                  status |-> describeLFA(Final), walked |-> didWalk]
            ELSE [ret |-> TRUE, pb |-> Final.PB, s |-> s1,
                  status |-> describeLFA(Final), walked |-> didWalk]
        firstAttempt(walked) == finish(walked, registered(walked), TRUE)
        fromCache(replayed) ==
            finish(addPBResults(s, replayed.A, replayed.NLResults, 1), s, FALSE)
    IN  IF failCached # <<>> THEN finish(reachedTop(Attempt, failCached[1]), s, FALSE)
        ELSE IF cached = <<>> THEN firstAttempt(tryResolveLoad(s, LI, Attempt))
        ELSE fromCache(replayCache(s, LI, cached[1], fin, Attempt, 1))

(***************************************************************************)
(* Invalidation of the caches of loads.                                    *)
(***************************************************************************)
\* pass->queuePendingPBUpdate(VC) from within a handler.
pendPBUpdate(s, VC) == [s EXCEPT !.pended = Append(@, VC)]

\* The loop of dismissCallBlockedPBLoads and of localCFGChanged: each load is
\* zapped and queued.
\* Each load is zapped; none is queued.
RECURSIVE zapAndQueue_zapOnly(_, _, _)
zapAndQueue_zapOnly(s, Loads, i) ==
    IF i > Len(Loads) THEN s
    ELSE zapAndQueue_zapOnly(zapDefOrClobberCache(s, Loads[i][1]), Loads, i + 1)

RECURSIVE zapAndQueue(_, _, _)
zapAndQueue(s, Loads, i) ==
    IF i > Len(Loads) THEN s
    ELSE zapAndQueue(pendPBUpdate(zapDefOrClobberCache(s, Loads[i][1]),
                                  make_vc(Loads[i][1], Loads[i][2])),
                     Loads, i + 1)

\* The entry of the call is erased; its loads are neither zapped nor queued.
dismissCallBlockedPBLoads_eraseOnly(s, CI) ==
    [s EXCEPT !.callBlockedPBLoads[CI] = <<>>]

dismissCallBlockedPBLoads(s, CI) ==
    IF s.callBlockedPBLoads[CI] = <<>> THEN s
    ELSE [zapAndQueue(s, s.callBlockedPBLoads[CI], 1) EXCEPT !.callBlockedPBLoads[CI] = <<>>]

\* CFGDependentPBLoads is not cleared.
localCFGChanged_keepSet(s) ==
    zapAndQueue(s, sortUniqueSet({ make_vc(LC[1], LC[2]) : LC \in s.CFGDependentPBLoads }), 1)

\* The loads of a DenseSet are met in the order of their addresses.
localCFGChanged(s) ==
    [zapAndQueue(s, sortUniqueSet({ make_vc(LC[1], LC[2]) : LC \in s.CFGDependentPBLoads }), 1)
        EXCEPT !.CFGDependentPBLoads = {}]

(***************************************************************************)
(* Queueing the users of a value.                                          *)
(***************************************************************************)
\* queueUpdatePB without the test of PBsConsideredThisRun: V is queued for
\* immediate investigation whatever group is being solved.
queueUpdatePB_anyGroup(s, Ctx, V, queueInLoopNow, pendInLoop, pendOutOfLoop) ==
    IF queueInLoopNow THEN [s EXCEPT !.produced = Append(@, make_vc(V, Ctx))]
    ELSE IF pendInLoop \/ pendOutOfLoop
    THEN [s EXCEPT !.pended = Append(@, make_vc(V, Ctx))]
    ELSE s

\* queueUpdatePB that drops the fact of the value it queues, as an
\* evaluation on the spot could.
queueUpdatePB_eraseNow(s, Ctx, V, queueInLoopNow, pendInLoop, pendOutOfLoop) ==
    IF queueInLoopNow /\ s.PBsConsideredThisRun[V] # <<>>
    THEN [s EXCEPT !.produced = Append(@, make_vc(V, Ctx)), !.pointerBases[V] = <<>>]
    ELSE s

queueUpdatePB(s, Ctx, V, queueInLoopNow, pendInLoop, pendOutOfLoop) ==
    LET inLoop == s.PBsConsideredThisRun[V] # <<>>
    IN  IF queueInLoopNow /\ inLoop
        THEN [s EXCEPT !.produced = Append(@, make_vc(V, Ctx))]
        ELSE IF (pendInLoop /\ inLoop) \/ (pendOutOfLoop /\ ~inLoop)
        THEN [s EXCEPT !.pended = Append(@, make_vc(V, Ctx))]
        ELSE s

RECURSIVE queueUpdatePBs(_, _, _, _, _, _)
queueUpdatePBs(s, VCs, i, queueInLoopNow, pendInLoop, pendOutOfLoop) ==
    IF i > Len(VCs) THEN s
    ELSE queueUpdatePBs(queueUpdatePB(s, VCs[i][2], VCs[i][1],
                                      queueInLoopNow, pendInLoop, pendOutOfLoop),
                        VCs, i + 1, queueInLoopNow, pendInLoop, pendOutOfLoop)

\* The loads registered against a store, in the order of their addresses.
memWriterEffectsOf(s, I) ==
    sortUniqueSet({ make_vc(LC[1], LC[2]) : LC \in s.memWriterEffects[I] })

queueUsersUpdatePBFalling(s, I, IL, V, queueInLoopNow, pendInLoop, pendOutOfLoop) ==
    IF NoLoop = IL
    THEN IF blockIsDead(getParent(I)) THEN s
         ELSE IF getOpcode(I) # "Call" /\ getValueScope(I) = NoLoop /\ hasResolvedPB(s, I) THEN s
         ELSE IF getOpcode(I) = "Call" THEN s
         ELSE IF getOpcode(I) = "Store"
         THEN queueUpdatePBs(s, memWriterEffectsOf(s, I), 1,
                             queueInLoopNow, pendInLoop, pendOutOfLoop)
         ELSE queueUpdatePB(s, RootCtx, I, queueInLoopNow, pendInLoop, pendOutOfLoop)
    ELSE s

\* No loop has a PeelAttempt: the user is investigated in this context.
queueUsersUpdatePBRising(s, I, TargetL, V, queueInLoopNow, pendInLoop, pendOutOfLoop) ==
    queueUsersUpdatePBFalling(s, I, NoLoop, V, queueInLoopNow, pendInLoop, pendOutOfLoop)

\* getLoopContext() is null in the root context and no user is a return.
queueUserUpdatePB(s, V, UserI, queueInLoopNow, pendInLoop, pendOutOfLoop) ==
    queueUsersUpdatePBRising(s, UserI, getValueScope(UserI), V,
                             queueInLoopNow, pendInLoop, pendOutOfLoop)

RECURSIVE queueUsersFrom(_, _, _, _, _, _, _)
queueUsersFrom(s, V, UserSeq, i, queueInLoopNow, pendInLoop, pendOutOfLoop) ==
    IF i > Len(UserSeq) THEN s
    ELSE queueUsersFrom(queueUserUpdatePB(s, V, UserSeq[i][1],
                                          queueInLoopNow, pendInLoop, pendOutOfLoop),
                        V, UserSeq, i + 1, queueInLoopNow, pendInLoop, pendOutOfLoop)

queueUsersUpdatePB(s, V, queueInLoopNow, pendInLoop, pendOutOfLoop) ==
    queueUsersFrom(s, V, sortUniqueSet({ make_vc(U, RootCtx) : U \in Users(V) }), 1,
                   queueInLoopNow, pendInLoop, pendOutOfLoop)

queuePendingWorkFromUpdatedPB(s, V, PB) ==
    LET replaced(s1) ==
            IF PB.Type = "Scalar" /\ Len(PB.Values) = 1 /\ getValueScope(V) = NoLoop
            THEN setReplacement(s1, V, PB.Values[1])
            ELSE s1
    IN  replaced(queueUsersUpdatePB(s, V, FALSE, FALSE, TRUE))

(***************************************************************************)
(* updateBasePointer.                                                      *)
(***************************************************************************)
HandledOpcodes ==
    {"GetElementPtr", "BitCast", "SExt", "ZExt", "IntToPtr", "PtrToInt",
     "Add", "Sub", "And", "Or", "Xor", "PHI", "Select", "Load", "Call"}

\* The new fact of V from its operands: [ret, pb, s].
computeNewPB(s, V, fin) ==
    LET op == getOpcode(V)
        pure(r) == [ret |-> r.ret, pb |-> r.pb, s |-> s]
        unary(r) == [ret |-> r.ret, pb |-> r.pb,
                     s |-> assert(s, r.typed, "ArgPB.Type != ValSetTypeUnknown")]
    IN  IF op = "Load" THEN tryForwardLoadPB(s, V, fin)
        ELSE IF op = "Argument"
        THEN [ret |-> getArgBasePointer(V) # <<>>, pb |-> NullPB, s |-> s]
        ELSE IF op \in {"GetElementPtr", "BitCast", "SExt", "ZExt", "IntToPtr", "PtrToInt"}
        THEN unary(updateUnaryValSet(s, V, NullPB))
        ELSE IF op \in {"Add", "Sub", "And", "Or", "Xor"}
        THEN pure(updateBinopValSet(s, V, NullPB))
        ELSE IF op = "PHI" /\ updateHeaderPHIPB(V) THEN [ret |-> FALSE, pb |-> NullPB, s |-> s]
        ELSE IF op \in {"PHI", "Select"}
        THEN pure(getMergeBasePointer(op, mergeInputs(s, V), fin, NullPB))
        ELSE pure(getMergeBasePointer("CallNotInlined", <<>>, fin, NullPB))

\* updateBasePointer without the return of "getting no worse": the
\* pessimistic call computes a fact whatever the old one is.
updateBasePointer_mayGetWorse(s, V, fin) ==
    LET Old == getPointerBaseFalling(s, V)
        OldPBValid == Old # <<>>
        OldPB == IF OldPBValid THEN Old[1] ELSE NullPB
        no(s1) == [ret |-> FALSE, s |-> s1, OldPBValid |-> OldPBValid, OldPB |-> OldPB,
                   stored |-> FALSE, NewPB |-> NullPB]
    IN  IF isInstruction(V) /\ getOpcode(V) \notin HandledOpcodes THEN no(s)
        ELSE IF NoLoop = getValueScope(V) /\ hasResolvedPB(s, V) THEN no(s)
        ELSE LET yes(s1, NewPB) ==
                     [ret |-> TRUE, s |-> s1, OldPBValid |-> OldPBValid, OldPB |-> OldPB,
                      stored |-> TRUE, NewPB |-> NewPB]
                 update(r) ==
                     LET s1 == assert(r.s, r.pb.Overdef \/ r.pb.Type # "Unknown",
                                      "NewPB.Overdef || (NewPB.Type != ValSetTypeUnknown)")
                         NewPB == IF OldPBValid THEN sortedByEq(r.pb, OldPB) ELSE r.pb
                     IN  IF ~r.ret THEN no(r.s)
                         ELSE IF ~OldPBValid \/ ~PBEq(OldPB, r.pb)
                         THEN yes(queueUsersUpdatePB([s1 EXCEPT !.pointerBases[V] = <<NewPB>>],
                                                     V, TRUE, FALSE, FALSE),
                                  NewPB)
                         ELSE no(s1)
             IN  update(computeNewPB(s, V, fin))

\* Returns [ret, s] and, for the history, the fact found (OldPBValid, OldPB)
\* and the fact stored (stored, NewPB).
updateBasePointer(s, V, fin) ==
    LET Old == getPointerBaseFalling(s, V)
        OldPBValid == Old # <<>>
        OldPB == IF OldPBValid THEN Old[1] ELSE NullPB
        no(s1) == [ret |-> FALSE, s |-> s1, OldPBValid |-> OldPBValid, OldPB |-> OldPB,
                   stored |-> FALSE, NewPB |-> NullPB]
    IN  IF isInstruction(V) /\ getOpcode(V) \notin HandledOpcodes THEN no(s)
        ELSE IF NoLoop = getValueScope(V) /\ hasResolvedPB(s, V) THEN no(s)
        ELSE IF fin /\ (~OldPBValid \/ OldPB.Overdef) THEN no(s)
        ELSE LET yes(s1, NewPB) ==
                     [ret |-> TRUE, s |-> s1, OldPBValid |-> OldPBValid, OldPB |-> OldPB,
                      stored |-> TRUE, NewPB |-> NewPB]
                 update(r) ==
                     LET s1 == assert(r.s, r.pb.Overdef \/ r.pb.Type # "Unknown",
                                      "NewPB.Overdef || (NewPB.Type != ValSetTypeUnknown)")
                         NewPB == IF OldPBValid THEN sortedByEq(r.pb, OldPB) ELSE r.pb
                     IN  IF ~r.ret THEN no(r.s)
                         ELSE IF ~OldPBValid \/ ~PBEq(OldPB, r.pb)
                         THEN yes(queueUsersUpdatePB([s1 EXCEPT !.pointerBases[V] = <<NewPB>>],
                                                     V, TRUE, FALSE, FALSE),
                                  NewPB)
                         ELSE no(s1)
             IN  update(computeNewPB(s, V, fin))

(***************************************************************************)
(* Choosing the work of a run.                                             *)
(***************************************************************************)
shouldCheckPB(s, V) ==
    LET PB == getPointerBaseFalling(s, V)
    IN  IF hasResolvedPB(s, V) THEN FALSE
        ELSE IF isInstruction(V) /\ blockIsDead(getParent(V)) THEN FALSE
        ELSE IF PB # <<>> /\ Len(PB[1].Values) = 1 THEN FALSE
        ELSE TRUE

erasePointerBase(s, V) == [s EXCEPT !.pointerBases[V] = <<>>]

queuePBUpdateIfUnresolved(s, V) ==
    IF shouldCheckPB(s, V)
    THEN LET oldPB == getPointerBaseLocal(s, V)
             s1 == [s EXCEPT !.PBsConsideredThisRun[V] =
                        IF oldPB # <<>> THEN oldPB ELSE <<NullPB>>]
         IN  [erasePointerBase(s1, V) EXCEPT !.produced = Append(@, make_vc(V, RootCtx))]
    ELSE s

RECURSIVE queuePBUpdateAllUnresolvedVCsInScope(_, _, _)
queuePBUpdateAllUnresolvedVCsInScope(s, L, V) ==
    IF V > Len(prog) THEN s
    ELSE IF isInstruction(V) /\ ~blockIsDead(getParent(V))
            /\ (L = NoLoop \/ (prog[V].scope # NoLoop /\ contains(L, prog[V].scope)))
    THEN queuePBUpdateAllUnresolvedVCsInScope(queuePBUpdateIfUnresolved(s, V), L, V + 1)
    ELSE queuePBUpdateAllUnresolvedVCsInScope(s, L, V + 1)

\* The root context has neither inlined calls nor peeled loops.
queueUpdatePBWholeLoop(s, L) == queuePBUpdateAllUnresolvedVCsInScope(s, L, 1)

\* getOutermostLoop: <<0, 0>> when V is in no unbound loop.
getOutermostLoop(V) ==
    LET VL == prog[V].scope
    IN  IF VL # NoLoop THEN <<RootCtx, VL>> ELSE <<0, 0>>

\* A fact with as many candidates as the old one does not pass.
isBetterThanOrEqual_strictlyBetter(NewPB, OldPB) ==
    IF OldPB.Overdef THEN TRUE
    ELSE IF NewPB.Overdef THEN FALSE
    ELSE Len(NewPB.Values) < Len(OldPB.Values)

isBetterThanOrEqual(NewPB, OldPB) ==
    IF OldPB.Overdef THEN TRUE
    ELSE IF NewPB.Overdef THEN FALSE
    ELSE Len(NewPB.Values) <= Len(OldPB.Values)

consideredVCs(s) ==
    sortUniqueSet({ make_vc(V, RootCtx) : V \in { U \in Values : s.PBsConsideredThisRun[U] # <<>> } })

\* An overdefined fact is fanned out like any other changed fact.
RECURSIVE queueNewPBWorkFrom_alsoOverdef(_, _, _)
queueNewPBWorkFrom_alsoOverdef(s, VCs, i) ==
    IF i > Len(VCs) THEN s
    ELSE LET V == VCs[i][1]
             snapshot == s.PBsConsideredThisRun[V][1]
             New == getPointerBaseLocal(s, V)
             s1 == IF ~PBEq(snapshot, NullPB)
                   THEN assert(s, isBetterThanOrEqual(New[1], snapshot),
                               "isBetterThanOrEqual(NewPB, it->second)")
                   ELSE s
         IN  IF New = <<>> THEN queueNewPBWorkFrom_alsoOverdef(s, VCs, i + 1)
             ELSE IF PBEq(snapshot, NullPB) \/ ~PBEq(New[1], snapshot)
             THEN queueNewPBWorkFrom_alsoOverdef(queuePendingWorkFromUpdatedPB(s1, V, New[1]),
                                                 VCs, i + 1)
             ELSE queueNewPBWorkFrom_alsoOverdef(s1, VCs, i + 1)

RECURSIVE queueNewPBWorkFrom(_, _, _)
queueNewPBWorkFrom(s, VCs, i) ==
    IF i > Len(VCs) THEN s
    ELSE LET V == VCs[i][1]
             snapshot == s.PBsConsideredThisRun[V][1]
             New == getPointerBaseLocal(s, V)
             s1 == IF ~PBEq(snapshot, NullPB)
                   THEN assert(s, isBetterThanOrEqual(New[1], snapshot),
                               "isBetterThanOrEqual(NewPB, it->second)")
                   ELSE s
         IN  IF New = <<>> THEN queueNewPBWorkFrom(s, VCs, i + 1)
             ELSE IF New[1].Overdef THEN queueNewPBWorkFrom(s1, VCs, i + 1)
             ELSE IF PBEq(snapshot, NullPB) \/ ~PBEq(New[1], snapshot)
             THEN queueNewPBWorkFrom(queuePendingWorkFromUpdatedPB(s1, V, New[1]), VCs, i + 1)
             ELSE queueNewPBWorkFrom(s1, VCs, i + 1)

\* queueNewPBWork pending every value it considered, changed or not.
queueNewPBWork_repend(s) == [s EXCEPT !.pended = @ \o consideredVCs(s)]

queueNewPBWork(s) == queueNewPBWorkFrom(s, consideredVCs(s), 1)

(***************************************************************************)
(* The actions of the solver specification.                                *)
(***************************************************************************)
NoFacts == [V \in Values |-> <<>>]

\* The state after the construction of the pass over one of the programs Ps
\* whose dead blocks are D.
InitProgram(Ps, D) ==
    /\ IdlePB
    /\ IdleMerge
    /\ prog \in Ps
    /\ addrDown \in BOOLEAN
    /\ deadBlocks = D
    /\ inlineChildren = {}
    /\ ctxTree = NoTree
    /\ lfa = NoAttempt
    /\ callBlockedPBLoads = [V \in Values |-> <<>>]
    /\ requeued = {}
    /\ baseline = <<>>
    /\ extraDead = 0
    /\ lastInval = NoInval
    /\ pointerBases = NoFacts
    /\ improvedValues = NoFacts
    /\ defOrClobberCache = NoFacts
    /\ failedLFACache = NoFacts
    /\ memWriterEffects = [V \in Values |-> {}]
    /\ CFGDependentPBLoads = {}
    /\ PBsConsideredThisRun = NoFacts
    /\ PBQueue1 = <<>>
    /\ PBQueue2 = <<>>
    /\ PBProduceQ = 1
    /\ pendingPBChecks1 = <<>>
    /\ pendingPBChecks2 = <<>>
    /\ producePendingPBChecks = 1
    /\ pc = "idle"
    /\ LoopsToCheck = <<>>
    /\ ValuesToCheck = <<>>
    /\ solverFinalise = FALSE
    /\ ConsumeQ = 2
    /\ sweep = <<>>
    /\ updatedVCs = <<>>
    /\ asserts = {}
    /\ seeds = {}
    /\ runs = 0
    /\ lastUpdate = NoUpdate
    /\ afterRun = <<>>
    /\ owed = {}

InitContext(D) == InitProgram(Programs, D)

InitSolver == InitContext({})

otherQ(Q) == IF Q = 1 THEN 2 ELSE 1

\* The state a handler leaves: what it produced goes to the end of the
\* queue PBProduceQ points to, what it pended to the end of the vector
\* producePendingPBChecks points to.
Adopt(s) ==
    /\ pointerBases' = s.pointerBases
    /\ improvedValues' = s.improvedValues
    /\ defOrClobberCache' = s.defOrClobberCache
    /\ failedLFACache' = s.failedLFACache
    /\ memWriterEffects' = s.memWriterEffects
    /\ CFGDependentPBLoads' = s.CFGDependentPBLoads
    /\ callBlockedPBLoads' = s.callBlockedPBLoads
    /\ PBsConsideredThisRun' = s.PBsConsideredThisRun
    /\ asserts' = s.asserts
    /\ PBQueue1' = IF PBProduceQ = 1 THEN PBQueue1 \o s.produced ELSE PBQueue1
    /\ PBQueue2' = IF PBProduceQ = 2 THEN PBQueue2 \o s.produced ELSE PBQueue2
    /\ pendingPBChecks1' =
           IF producePendingPBChecks = 1 THEN pendingPBChecks1 \o s.pended ELSE pendingPBChecks1
    /\ pendingPBChecks2' =
           IF producePendingPBChecks = 2 THEN pendingPBChecks2 \o s.pended ELSE pendingPBChecks2

\* The loads that depend on a store using V: the (load, context) pairs of
\* memWriterEffects[S] for every store S with V as an operand.
storeDependents(V) ==
    UNION { memWriterEffects[S] : S \in { U \in Users(V) : getOpcode(U) = "Store" } }

\* History: the loads still to be evaluated again.  The call of
\* updateBasePointer for V evaluates V; if it stores a fact for V, the loads
\* that depend on a store using V are to be evaluated again.
owedAfter(V, r) ==
    (owed \ {<<V, RootCtx>>}) \cup (IF r.stored THEN storeDependents(V) ELSE {})

historyOf(V, fin, r) ==
    [V |-> V, finalise |-> fin, OldPBValid |-> r.OldPBValid, OldPB |-> r.OldPB,
     stored |-> r.stored, NewPB |-> r.NewPB]

\* IntegrationHeuristicsPass::queuePendingPBUpdate, called by the client of
\* the solver before the first run.
queuePendingPBUpdate(V) ==
    /\ pc = "idle"
    /\ runs = 0
    /\ Cardinality(seeds) < MaxSeeds
    /\ V \notin seeds
    /\ seeds' = seeds \cup {V}
    /\ Adopt([SolverState EXCEPT !.pended = <<make_vc(V, RootCtx)>>])
    /\ UNCHANGED <<pbVars, mergeVars, progVars, clientVars, driverVars, PBProduceQ,
                   producePendingPBChecks, runs, lastUpdate, afterRun, owed, requeued>>

\* The client queues the same values again after a run.
Requeue ==
    /\ pc = "done"
    /\ runs < MaxRuns
    /\ pc' = "idle"
    /\ afterRun' = pointerBases
    /\ Adopt([SolverState EXCEPT
                  !.pended = sortUniqueSet({ make_vc(V, RootCtx) : V \in seeds })])
    /\ UNCHANGED <<pbVars, mergeVars, progVars, clientVars, PBProduceQ, producePendingPBChecks,
                   LoopsToCheck, ValuesToCheck, solverFinalise, ConsumeQ, sweep,
                   updatedVCs, seeds, runs, lastUpdate, owed, requeued>>

\* Entry of the driver runPointerBaseSolver().
StartDriver ==
    /\ pc = "idle"
    /\ runs < MaxRuns
    /\ pc' = "outer"
    /\ runs' = runs + 1
    /\ UNCHANGED <<pbVars, mergeVars, progVars, clientVars, attemptVars, queueVars,
                   LoopsToCheck, ValuesToCheck, solverFinalise, ConsumeQ, sweep,
                   updatedVCs, asserts, seeds, lastUpdate, afterRun, owed, requeued>>

RECURSIVE triage(_, _, _)
triage(s, Checks, wantLoops) ==
    IF Checks = <<>> THEN {}
    ELSE LET nextVC == Head(Checks)
             nextVCLoop == getOutermostLoop(nextVC[1])
             rest == triage(s, Tail(Checks), wantLoops)
         IN  IF ~shouldCheckPB(s, nextVC[1]) THEN rest
             ELSE IF nextVCLoop[1] # 0
             THEN IF wantLoops THEN rest \cup {nextVCLoop} ELSE rest
             ELSE IF wantLoops THEN rest ELSE rest \cup {nextVC}

RECURSIVE sortLoops(_)
sortLoops(S) ==
    IF S = {} THEN <<>>
    ELSE LET m == CHOOSE x \in S : \A y \in S \ {x} : addrOf(x[2]) < addrOf(y[2])
         IN  <<m>> \o sortLoops(S \ {m})

pendingEmpty == pendingPBChecks1 = <<>> /\ pendingPBChecks2 = <<>>

\* Step 1 of an iteration of the driver's loop.
Triage ==
    /\ pc = "outer"
    /\ ~pendingEmpty
    /\ LET consumePBChecks ==
               IF producePendingPBChecks = 1 THEN pendingPBChecks1 ELSE pendingPBChecks2
       IN  /\ LoopsToCheck' = sortLoops(triage(SolverState, consumePBChecks, TRUE))
           /\ ValuesToCheck' = sortUniqueSet(triage(SolverState, consumePBChecks, FALSE))
    /\ producePendingPBChecks' = otherQ(producePendingPBChecks)
    /\ pendingPBChecks1' = IF producePendingPBChecks = 1 THEN <<>> ELSE pendingPBChecks1
    /\ pendingPBChecks2' = IF producePendingPBChecks = 2 THEN <<>> ELSE pendingPBChecks2
    /\ pc' = "values"
    /\ UNCHANGED <<pbVars, mergeVars, progVars, clientVars, attemptVars, PBsConsideredThisRun,
                   PBQueue1, PBQueue2, PBProduceQ, solverFinalise, ConsumeQ, sweep,
                   updatedVCs, historyVars>>

\* The driver's loop ends: runPointerBaseSolver() returns.
DriverReturn ==
    /\ pc = "outer"
    /\ pendingEmpty
    /\ pc' = "done"
    /\ UNCHANGED <<pbVars, mergeVars, progVars, clientVars, attemptVars, queueVars,
                   LoopsToCheck, ValuesToCheck, solverFinalise, ConsumeQ, sweep,
                   updatedVCs, historyVars>>

\* A loop-free value: snapshot, erase, updateBasePointer(V, false).
CheckValueOptimistic ==
    /\ pc = "values"
    /\ ValuesToCheck # <<>>
    /\ LET V == Head(ValuesToCheck)[1]
           oldPB == getPointerBaseLocal(SolverState, V)
           s0 == [SolverState EXCEPT
                      !.PBsConsideredThisRun =
                          [NoFacts EXCEPT ![V] = IF oldPB # <<>> THEN oldPB ELSE <<NullPB>>]]
       IN  \E r \in {updateBasePointer(erasePointerBase(s0, V), V, FALSE)} :
               /\ Adopt(r.s)
               /\ lastUpdate' = historyOf(V, FALSE, r)
               /\ owed' = owedAfter(V, r)
               /\ requeued' = requeued \ {<<V, RootCtx>>}
    /\ pc' = "valuePessimistic"
    /\ UNCHANGED <<pbVars, mergeVars, progVars, clientVars, PBProduceQ, producePendingPBChecks,
                   LoopsToCheck, ValuesToCheck, solverFinalise, ConsumeQ, sweep,
                   updatedVCs, seeds, runs, afterRun>>

\* ... updateBasePointer(V, true).
CheckValuePessimistic ==
    /\ pc = "valuePessimistic"
    /\ LET V == Head(ValuesToCheck)[1]
       IN  \E r \in {updateBasePointer(SolverState, V, TRUE)} :
               /\ Adopt(r.s)
               /\ lastUpdate' = historyOf(V, TRUE, r)
               /\ owed' = owedAfter(V, r)
               /\ requeued' = requeued \ {<<V, RootCtx>>}
    /\ pc' = "valueDone"
    /\ UNCHANGED <<pbVars, mergeVars, progVars, clientVars, PBProduceQ, producePendingPBChecks,
                   LoopsToCheck, ValuesToCheck, solverFinalise, ConsumeQ, sweep,
                   updatedVCs, seeds, runs, afterRun>>

\* ... queueNewPBWork and the end of the value's iteration.
CheckValueDone ==
    /\ pc = "valueDone"
    /\ Adopt([queueNewPBWork(SolverState) EXCEPT !.PBsConsideredThisRun = NoFacts])
    /\ ValuesToCheck' = Tail(ValuesToCheck)
    /\ pc' = "values"
    /\ UNCHANGED <<pbVars, mergeVars, progVars, clientVars, PBProduceQ, producePendingPBChecks,
                   LoopsToCheck, solverFinalise, ConsumeQ, sweep, updatedVCs,
                   seeds, runs, lastUpdate, afterRun, owed, requeued>>

ValuesDone ==
    /\ pc = "values"
    /\ ValuesToCheck = <<>>
    /\ pc' = "loops"
    /\ UNCHANGED <<pbVars, mergeVars, progVars, clientVars, attemptVars, queueVars,
                   LoopsToCheck, ValuesToCheck, solverFinalise, ConsumeQ, sweep,
                   updatedVCs, historyVars>>

\* A loop group: queueUpdatePBWholeLoop, then the call of
\* runPointerBaseSolver(false, &updatedVCs).
LoopBegin ==
    /\ pc = "loops"
    /\ LoopsToCheck # <<>>
    /\ Adopt(queueUpdatePBWholeLoop([SolverState EXCEPT !.PBsConsideredThisRun = NoFacts],
                                    Head(LoopsToCheck)[2]))
    /\ updatedVCs' = <<>>
    /\ solverFinalise' = FALSE
    /\ ConsumeQ' = otherQ(PBProduceQ)
    /\ pc' = "solve"
    /\ UNCHANGED <<pbVars, mergeVars, progVars, clientVars, PBProduceQ, producePendingPBChecks,
                   LoopsToCheck, ValuesToCheck, sweep, seeds, runs, lastUpdate, afterRun, owed, requeued>>

\* Only the queue about to be consumed is tested.
solverDone_consumeOnly == (IF ConsumeQ = 1 THEN PBQueue1 ELSE PBQueue2) = <<>>

\* while(PBQueue1.size() || PBQueue2.size()) of runPointerBaseSolver(finalise, ...).
solverDone == PBQueue1 = <<>> /\ PBQueue2 = <<>>

\* The control state of a call of runPointerBaseSolver(finalise, ...): where
\* it is, what is left of the sweep, and its parameter.
phaseCtl == <<pc, sweep, solverFinalise>>

\* A sweep starts: ConsumeQ is sorted and made unique.
SweepBeginCtl ==
    /\ pc = "solve"
    /\ ~solverDone
    /\ sweep' = sortUnique(IF ConsumeQ = 1 THEN PBQueue1 ELSE PBQueue2)
    /\ pc' = "sweep"
    /\ UNCHANGED solverFinalise

SweepBegin ==
    /\ SweepBeginCtl
    /\ PBQueue1' = IF ConsumeQ = 1 THEN sweep' ELSE PBQueue1
    /\ PBQueue2' = IF ConsumeQ = 2 THEN sweep' ELSE PBQueue2
    /\ UNCHANGED <<pbVars, mergeVars, progVars, clientVars, attemptVars, PBsConsideredThisRun,
                   PBProduceQ, pendingPBChecks1, pendingPBChecks2, producePendingPBChecks,
                   LoopsToCheck, ValuesToCheck, ConsumeQ, updatedVCs, historyVars>>

\* One element of the sweep: updateBasePointer(V, finalise).
UpdateItemCtl ==
    /\ pc = "sweep"
    /\ sweep # <<>>
    /\ sweep' = Tail(sweep)
    /\ UNCHANGED <<pc, solverFinalise>>

UpdateItem ==
    /\ UpdateItemCtl
    /\ LET V == Head(sweep)[1]
           s0 == assert(SolverState, PBsConsideredThisRun[V] # <<>>,
                        "PBsConsideredThisRun.count(*it)")
       IN  \E r \in {updateBasePointer(s0, V, solverFinalise)} :
               /\ Adopt(r.s)
               /\ lastUpdate' = historyOf(V, solverFinalise, r)
               /\ owed' = owedAfter(V, r)
               /\ requeued' = requeued \ {<<V, RootCtx>>}
               /\ updatedVCs' = IF r.ret /\ ~solverFinalise
                                THEN Append(updatedVCs, Head(sweep)) ELSE updatedVCs
    /\ UNCHANGED <<pbVars, mergeVars, progVars, clientVars, PBProduceQ, producePendingPBChecks,
                   LoopsToCheck, ValuesToCheck, ConsumeQ, seeds, runs, afterRun>>

\* The sweep ends: ConsumeQ is cleared and the two queues change roles.
SweepEndCtl ==
    /\ pc = "sweep"
    /\ sweep = <<>>
    /\ pc' = "solve"
    /\ UNCHANGED <<sweep, solverFinalise>>

SweepEnd ==
    /\ SweepEndCtl
    /\ PBQueue1' = IF ConsumeQ = 1 THEN <<>> ELSE PBQueue1
    /\ PBQueue2' = IF ConsumeQ = 2 THEN <<>> ELSE PBQueue2
    /\ ConsumeQ' = PBProduceQ
    /\ PBProduceQ' = ConsumeQ
    /\ UNCHANGED <<pbVars, mergeVars, progVars, clientVars, attemptVars, PBsConsideredThisRun,
                   pendingPBChecks1, pendingPBChecks2, producePendingPBChecks,
                   LoopsToCheck, ValuesToCheck, updatedVCs, historyVars>>

\* runPointerBaseSolver(false, ...) returns: the values it updated are queued
\* and runPointerBaseSolver(true, 0) is called.
OptimisticReturnCtl ==
    /\ pc = "solve"
    /\ solverDone
    /\ ~solverFinalise
    /\ solverFinalise' = TRUE
    /\ UNCHANGED <<pc, sweep>>

\* The pessimistic phase is called with nothing queued for it.
OptimisticReturn_seedNothing ==
    /\ OptimisticReturnCtl
    /\ Adopt(SolverState)
    /\ ConsumeQ' = otherQ(PBProduceQ)
    /\ UNCHANGED <<pbVars, mergeVars, progVars, clientVars, PBProduceQ, producePendingPBChecks,
                   LoopsToCheck, ValuesToCheck, updatedVCs,
                   seeds, runs, lastUpdate, afterRun, owed, requeued>>

OptimisticReturn ==
    /\ OptimisticReturnCtl
    /\ Adopt([SolverState EXCEPT !.produced = sortUnique(updatedVCs)])
    /\ ConsumeQ' = otherQ(PBProduceQ)
    /\ UNCHANGED <<pbVars, mergeVars, progVars, clientVars, PBProduceQ, producePendingPBChecks,
                   LoopsToCheck, ValuesToCheck, updatedVCs,
                   seeds, runs, lastUpdate, afterRun, owed, requeued>>

\* runPointerBaseSolver(true, 0) returns: queueNewPBWork and the end of the
\* loop group's iteration.
PessimisticReturnCtl ==
    /\ pc = "solve"
    /\ solverDone
    /\ solverFinalise
    /\ pc' = "loops"
    /\ UNCHANGED <<sweep, solverFinalise>>

PessimisticReturn ==
    /\ PessimisticReturnCtl
    /\ Adopt([queueNewPBWork(SolverState) EXCEPT !.PBsConsideredThisRun = NoFacts])
    /\ LoopsToCheck' = Tail(LoopsToCheck)
    /\ UNCHANGED <<pbVars, mergeVars, progVars, clientVars, PBProduceQ, producePendingPBChecks,
                   ValuesToCheck, ConsumeQ, updatedVCs,
                   seeds, runs, lastUpdate, afterRun, owed, requeued>>

LoopsDone ==
    /\ pc = "loops"
    /\ LoopsToCheck = <<>>
    /\ pc' = "outer"
    /\ UNCHANGED <<pbVars, mergeVars, progVars, clientVars, attemptVars, queueVars,
                   LoopsToCheck, ValuesToCheck, solverFinalise, ConsumeQ, sweep,
                   updatedVCs, historyVars>>

Next ==
    \/ \E V \in SeedValues : queuePendingPBUpdate(V)
    \/ Requeue
    \/ StartDriver
    \/ Triage
    \/ DriverReturn
    \/ CheckValueOptimistic
    \/ CheckValuePessimistic
    \/ CheckValueDone
    \/ ValuesDone
    \/ LoopBegin
    \/ SweepBegin
    \/ UpdateItem
    \/ SweepEnd
    \/ OptimisticReturn
    \/ PessimisticReturn
    \/ LoopsDone

Init == InitSolver

Spec == Init /\ [][Next]_vars

\* runPointerBaseSolver(finalise, ...) is sequential code: while a call is in
\* progress its next step is taken.  Every step of a call changes phaseCtl,
\* and the fairness is stated on that part of the steps.
PhaseStepCtl ==
    \/ SweepBeginCtl \/ UpdateItemCtl \/ SweepEndCtl
    \/ OptimisticReturnCtl \/ PessimisticReturnCtl

FairSpec == Init /\ [][Next]_vars /\ WF_phaseCtl(PhaseStepCtl)

(***************************************************************************)
(* SpecDead: the pass is run once, then constructed afresh over the same   *)
(* program with one more block dead, given the same values, and run again. *)
(***************************************************************************)
\* A dead block is dead together with the blocks it dominates: ArmBlock is
\* empty and no instruction outside ThenBlock uses a value of ThenBlock.
Restart(b) ==
    /\ pc = "done"
    /\ runs = 1
    /\ extraDead = 0
    /\ b \in DeadCandidates \ deadBlocks
    /\ deadBlocks' = deadBlocks \cup {b}
    /\ extraDead' = b
    /\ baseline' = pointerBases
    /\ pointerBases' = NoFacts
    /\ improvedValues' = NoFacts
    /\ defOrClobberCache' = NoFacts
    /\ failedLFACache' = NoFacts
    /\ memWriterEffects' = [V \in Values |-> {}]
    /\ CFGDependentPBLoads' = {}
    /\ callBlockedPBLoads' = [V \in Values |-> <<>>]
    /\ PBsConsideredThisRun' = NoFacts
    /\ PBQueue1' = <<>>
    /\ PBQueue2' = <<>>
    /\ PBProduceQ' = 1
    /\ pendingPBChecks1' = sortUniqueSet({ make_vc(V, RootCtx) : V \in seeds })
    /\ pendingPBChecks2' = <<>>
    /\ producePendingPBChecks' = 1
    /\ pc' = "idle"
    /\ LoopsToCheck' = <<>>
    /\ ValuesToCheck' = <<>>
    /\ solverFinalise' = FALSE
    /\ ConsumeQ' = 2
    /\ sweep' = <<>>
    /\ updatedVCs' = <<>>
    /\ lastUpdate' = NoUpdate
    /\ owed' = {}
    /\ requeued' = {}
    /\ UNCHANGED <<pbVars, mergeVars, prog, addrDown, inlineChildren, ctxTree, lfa,
                   asserts, seeds, runs, afterRun, lastInval>>

InitDead == \E D \in SUBSET DeadCandidates : InitContext(D)

NextDead ==
    \/ \E V \in SeedValues : queuePendingPBUpdate(V)
    \/ StartDriver
    \/ Triage
    \/ DriverReturn
    \/ CheckValueOptimistic
    \/ CheckValuePessimistic
    \/ CheckValueDone
    \/ ValuesDone
    \/ LoopBegin
    \/ SweepBegin
    \/ UpdateItem
    \/ SweepEnd
    \/ OptimisticReturn
    \/ PessimisticReturn
    \/ LoopsDone
    \/ \E b \in DeadCandidates : Restart(b)

SpecDead == InitDead /\ [][NextDead]_vars

(***************************************************************************)
(* SpecInval: between two runs of the solver the integrator inlines the    *)
(* call into the external function, or finds a block dead, and tells the   *)
(* context, which drops the caches of the loads concerned.                 *)
(***************************************************************************)
\* The caches and reverse indices as an invalidation finds them.
CacheSnapshot ==
    [defOrClobberCache |-> defOrClobberCache,
     failedLFACache |-> failedLFACache,
     memWriterEffects |-> memWriterEffects,
     callBlockedPBLoads |-> callBlockedPBLoads,
     CFGDependentPBLoads |-> CFGDependentPBLoads]

\* The integrator may change the program between two runs of the solver.
betweenRuns == pc \in {"done", "idle"} /\ runs >= 1 /\ runs < MaxRuns

\* The call CI is inlined: dismissCallBlockedPBLoads(CI).
DismissCallBlockedPBLoads(CI) ==
    /\ betweenRuns
    /\ getOpcode(CI) = "Call"
    /\ ~isMemIntrinsic(CI)
    /\ ~getInlineAttempt(CI)
    /\ inlineChildren' = inlineChildren \cup {CI}
    /\ Adopt(dismissCallBlockedPBLoads(SolverState, CI))
    /\ pc' = "idle"
    /\ lastInval' = [kind |-> "call", call |-> CI, loads |-> Range(callBlockedPBLoads[CI]),
                     before |-> CacheSnapshot]
    /\ requeued' = requeued \cup Range(callBlockedPBLoads[CI])
    /\ UNCHANGED <<pbVars, mergeVars, prog, addrDown, deadBlocks, ctxTree, lfa, baseline, extraDead,
                   PBProduceQ, producePendingPBChecks, LoopsToCheck, ValuesToCheck,
                   solverFinalise, ConsumeQ, sweep, updatedVCs,
                   seeds, runs, lastUpdate, afterRun, owed>>

\* The block b is found dead: localCFGChanged().
LocalCFGChanged(b) ==
    /\ betweenRuns
    /\ b \in DeadCandidates \ deadBlocks
    /\ deadBlocks' = deadBlocks \cup {b}
    /\ Adopt(localCFGChanged(SolverState))
    /\ pc' = "idle"
    /\ lastInval' = [kind |-> "cfg", call |-> 0, loads |-> CFGDependentPBLoads,
                     before |-> CacheSnapshot]
    /\ requeued' = requeued \cup CFGDependentPBLoads
    /\ UNCHANGED <<pbVars, mergeVars, prog, addrDown, inlineChildren, ctxTree, lfa, baseline, extraDead,
                   PBProduceQ, producePendingPBChecks, LoopsToCheck, ValuesToCheck,
                   solverFinalise, ConsumeQ, sweep, updatedVCs,
                   seeds, runs, lastUpdate, afterRun, owed>>

\* The call instructions of the program.
CallInsts == {17, 18}

\* Values the client queues in this specification.
InvalSeedValues == {2, 10, 12, 16, 19, 20}

NextInval ==
    \/ \E V \in InvalSeedValues : queuePendingPBUpdate(V)
    \/ Requeue
    \/ StartDriver
    \/ Triage
    \/ DriverReturn
    \/ CheckValueOptimistic
    \/ CheckValuePessimistic
    \/ CheckValueDone
    \/ ValuesDone
    \/ LoopBegin
    \/ SweepBegin
    \/ UpdateItem
    \/ SweepEnd
    \/ OptimisticReturn
    \/ PessimisticReturn
    \/ LoopsDone
    \/ \E CI \in CallInsts : DismissCallBlockedPBLoads(CI)
    \/ \E b \in DeadCandidates : LocalCFGChanged(b)

SpecInval == Init /\ [][NextInval]_vars

\* A step of one of the two handlers that call zapDefOrClobberCache.
InvalidationStep ==
    \/ \E CI \in CallInsts : DismissCallBlockedPBLoads(CI)
    \/ \E b \in DeadCandidates : LocalCFGChanged(b)

(***************************************************************************)
(* C6.  Facts within a phase.                                              *)
(***************************************************************************)
\* The lattice order: anything is below overdefined, and a finite set is
\* below the finite sets of its type that include it.
aboveOrEqual(NewPB, OldPB) ==
    \/ NewPB.Overdef
    \/ /\ ~OldPB.Overdef
       /\ Range(OldPB.Values) \subseteq Range(NewPB.Values)
       /\ (OldPB.Values # <<>> => NewPB.Type = OldPB.Type)

\* C6: during a call of runPointerBaseSolver(finalise, ...) every step that
\* runs updateBasePointer leaves each value that had a fact with a fact above
\* or equal to it: no candidate is lost and overdefined stays overdefined.
C6_MonotoneWithinPhase ==
    [][UpdateItem =>
          \A V \in Values :
              pointerBases[V] # <<>> =>
                  /\ pointerBases'[V] # <<>>
                  /\ aboveOrEqual(pointerBases'[V][1], pointerBases[V][1])]_vars

\* An update of a phase replaced the fact of a value of a loop by one with
\* more candidates.
C6_Witness ==
    /\ pc = "sweep"
    /\ lastUpdate.stored
    /\ lastUpdate.OldPBValid
    /\ getValueScope(lastUpdate.V) # NoLoop
    /\ ~lastUpdate.OldPB.Overdef
    /\ \/ lastUpdate.NewPB.Overdef
       \/ Len(lastUpdate.NewPB.Values) > Len(lastUpdate.OldPB.Values)
    /\ pointerBases[lastUpdate.V] = <<lastUpdate.NewPB>>

(***************************************************************************)
(* C7.  Running the driver again.                                          *)
(***************************************************************************)
sameFact(A, B) ==
    /\ (A = <<>>) = (B = <<>>)
    /\ A # <<>> => PBEq(A[1], B[1])

\* C7: when the driver has returned, the same values are queued again and the
\* driver has returned a second time, every value has the fact it had after
\* the run before (no fact where it had none, an equal fact otherwise).
C7_SolverIdempotent ==
    (pc = "done" /\ runs >= 2) =>
        \A V \in Values : sameFact(pointerBases[V], afterRun[V])

(***************************************************************************)
(* C8.  Termination of a phase.                                            *)
(***************************************************************************)
\* A call of runPointerBaseSolver(f, ...) is in progress.
inPhase(f) == pc \in {"solve", "sweep"} /\ solverFinalise = f

bothQueuesEmpty == PBQueue1 = <<>> /\ PBQueue2 = <<>>

\* The step in which a call of runPointerBaseSolver(finalise, ...) returns:
\* the driver goes on to the pessimistic call or to the end of the group.
phaseReturns ==
    /\ pc = "solve"
    /\ \/ ~solverFinalise /\ solverFinalise'
       \/ pc' = "loops"

\* C8: every call of runPointerBaseSolver(finalise, ...) in progress reaches
\* the head of its loop with PBQueue1 and PBQueue2 both empty and returns
\* (the optimistic call to the driver, which starts the pessimistic call; the
\* pessimistic call to the driver, which ends the group), and a call returns
\* only from a state with both queues empty.
C8_PhaseTermination ==
    /\ \A f \in BOOLEAN :
           inPhase(f) ~> (pc = "solve" /\ solverFinalise = f /\ bothQueuesEmpty)
    /\ inPhase(FALSE) ~> inPhase(TRUE)
    /\ inPhase(TRUE) ~> (pc = "loops")
    /\ [][phaseReturns => bothQueuesEmpty]_vars

\* The pessimistic call has returned, its last sweep having evaluated again
\* a value of the loop that had a fact.
C8_Witness ==
    /\ pc = "loops"
    /\ PBQueue1 = <<>>
    /\ PBQueue2 = <<>>
    /\ lastUpdate.finalise
    /\ lastUpdate.OldPBValid
    /\ getValueScope(lastUpdate.V) # NoLoop

(***************************************************************************)
(* C9.  tryForwardLoadPB with and without the caches of the load.          *)
(***************************************************************************)
Loads == { V \in Values : getOpcode(V) = "Load" }

hasCacheEntry(LI) == defOrClobberCache[LI] # <<>> \/ failedLFACache[LI] # <<>>

\* The program state with both caches of LI empty.
cachesCleared(s, LI) ==
    [s EXCEPT !.defOrClobberCache[LI] = <<>>, !.failedLFACache[LI] = <<>>]

\* What a call of tryForwardLoadPB comes to: its result, the fact it
\* returns, and whether one of its assertions failed, in which case a build
\* with assertions returns nothing.
forwardOutcome(s, LI, fin) ==
    LET r == tryForwardLoadPB([s EXCEPT !.asserts = {}], LI, fin)
    IN  [ret |-> r.ret, pb |-> r.pb, assertionFailed |-> r.s.asserts # {}]

sameOutcome(a, b) ==
    /\ a.assertionFailed = b.assertionFailed
    /\ a.ret = b.ret
    /\ a.ret => PBEq(a.pb, b.pb)

C10_InvalidationComplete == pc = "done" => owed = {}

(***************************************************************************)
(* C11.  Dead-code inertness.                                              *)
(***************************************************************************)
\* NewPB is strictly higher in the lattice than OldPB.
strictlyWorse(NewPB, OldPB) == aboveOrEqual(NewPB, OldPB) /\ ~aboveOrEqual(OldPB, NewPB)

pendingPBChecks == IF producePendingPBChecks = 1 THEN pendingPBChecks1 ELSE pendingPBChecks2

\* C12: a step of dismissCallBlockedPBLoads(CI) leaves every (L, C) that was
\* recorded in callBlockedPBLoads[CI] without a positive and without a
\* negative cache entry and on the pending queue of the solver, and leaves
\* callBlockedPBLoads without an entry for CI.
C12_CallBlockedRequeue ==
    [][\A CI \in CallInsts :
           DismissCallBlockedPBLoads(CI) =>
               /\ \A LC \in Range(callBlockedPBLoads[CI]) :
                      /\ defOrClobberCache'[LC[1]] = <<>>
                      /\ failedLFACache'[LC[1]] = <<>>
                      /\ make_vc(LC[1], LC[2]) \in Range(pendingPBChecks')
               /\ callBlockedPBLoads'[CI] = <<>>]_vars

\* The call 17 has been inlined when the load m had a cache entry that
\* lists it, and nothing has happened since.
C12_Witness ==
    /\ pc = "idle"
    /\ lastInval.kind = "call"
    /\ lastInval.call = 17
    /\ <<19, RootCtx>> \in lastInval.loads
    /\ lastInval.before.defOrClobberCache[19] # <<>>
    /\ lastInval.before.callBlockedPBLoads[17] # <<>>
    /\ defOrClobberCache[19] = <<>>
    /\ callBlockedPBLoads[17] = <<>>
    /\ make_vc(19, RootCtx) \in Range(pendingPBChecks)

(***************************************************************************)
(* C13.  Dead inputs of a merge point (checked under SpecMergeOnce).       *)
(***************************************************************************)
\* The inputs of the merge point with the fact of every dead one replaced.
withDeadFacts(valid, P) ==
    [i \in 1..Len(mpreds) |-> IF mpreds[i].dead THEN deadInput(valid, P) ELSE mpreds[i]]

\* The values of the facts that arrive over live edges or from live return
\* blocks.
liveValues ==
    UNION { Range(mpreds[i].pb.Values) : i \in { j \in 1..Len(mpreds) : ~mpreds[j].dead } }

\* C13: the fact computed for a PHI or an inlined call holds no value that
\* comes only from an input whose edge or return block is dead, and is the
\* fact computed when the dead inputs have no fact at all and when they are
\* overdefined, in both phases.
C13_DeadInputsNeverContribute ==
    (mphase >= 1 /\ mkind \in {"PHI", "Call"}) =>
        /\ Range(mout1.pb.Values) \subseteq liveValues
        /\ mout1 = getMergeBasePointer(mkind, withDeadFacts(FALSE, NullPB), mfin, NullPB)
        /\ mout1 = getMergeBasePointer(mkind, withDeadFacts(TRUE, getOverdef), mfin, NullPB)

\* A PHI with a live edge carrying one pointer and a dead edge carrying
\* another: the fact is the first pointer alone.
C13_Witness ==
    /\ mphase >= 1
    /\ mkind = "PHI"
    /\ mpreds = <<liveInput(TRUE, rangeFact("PB", 1, 1)), deadInput(TRUE, rangeFact("PB", 2, 2))>>
    /\ mout1.ret
    /\ mout1.pb = rangeFact("PB", 1, 1)

(***************************************************************************)
(* C14.  A merge point without a feasible input (under SpecMergeOnce).     *)
(***************************************************************************)
\* What updateBasePointer leaves in pointerBases for a PHI, select or call
\* that had no fact, given the answer of getMergeBasePointer: it returns
\* false without storing anything when the answer is false, and stores
\* NewPB otherwise.  <<>> is no fact.
updateFromMerge(out) == IF ~out.ret THEN <<>> ELSE <<out.pb>>

\* C14: an inlined call all of whose return blocks are dead and a PHI all
\* of whose incoming edges are dead get the overdefined fact when they are
\* evaluated.
C14_NoFeasibleInputOverdef ==
    (mphase >= 1 /\ mkind \in {"PHI", "Call"} /\ \A i \in 1..Len(mpreds) : mpreds[i].dead) =>
        /\ updateFromMerge(mout1) # <<>>
        /\ exactlyOverdef(updateFromMerge(mout1)[1])

(***************************************************************************)
(* C15.  Reverse edges of the cache entries (checked under SpecInval).     *)
(***************************************************************************)
\* (L, C) is registered against the instruction I in a reverse index of the
\* context of I.
hasReverseEdge(I, L) ==
    \/ <<L, RootCtx>> \in memWriterEffects[I]
    \/ <<L, RootCtx>> \in Range(callBlockedPBLoads[I])

\* C15: in every reachable state, for every load L and every entry (I, C')
\* with non-null C' of defOrClobberCache[L], (L, C) is registered against I
\* in memWriterEffects or in callBlockedPBLoads.
C15_ReverseEdgeInvariant ==
    \A L \in Values :
        defOrClobberCache[L] # <<>> =>
            \A k \in 1..Len(defOrClobberCache[L][1]) :
                defOrClobberCache[L][1][k][2] # 0 =>
                    hasReverseEdge(defOrClobberCache[L][1][k][1], L)

(***************************************************************************)
(* C16.  zapDefOrClobberCache (checked under SpecInval).                   *)
(***************************************************************************)
LoadInsts == { L \in Values : getOpcode(L) = "Load" }

bothCachesEmpty(s, L) == s.defOrClobberCache[L] = <<>> /\ s.failedLFACache[L] = <<>>

\* C16: in every reachable state and for every load L, the state that
\* zapDefOrClobberCache(L) returns has neither a defOrClobberCache nor a
\* failedLFACache entry for L; and when a step of an invalidation ends
\* every load it zapped has neither.
C16_ZapErasesBothCaches ==
    /\ [](\A L \in LoadInsts : bothCachesEmpty(zapDefOrClobberCache(SolverState, L), L))
    /\ [][InvalidationStep =>
              \A LC \in lastInval'.loads :
                  defOrClobberCache'[LC[1]] = <<>> /\ failedLFACache'[LC[1]] = <<>>]_vars

\* localCFGChanged() has zapped the load r, which had a positive entry,
\* while the load f has a negative one that zapDefOrClobberCache would erase.
C16_Witness ==
    /\ pc = "idle"
    /\ lastInval.kind = "cfg"
    /\ <<10, RootCtx>> \in lastInval.loads
    /\ lastInval.before.defOrClobberCache[10] # <<>>
    /\ bothCachesEmpty(SolverState, 10)
    /\ failedLFACache[12] # <<>>
    /\ bothCachesEmpty(zapDefOrClobberCache(SolverState, 12), 12)

(***************************************************************************)
(* C17.  The reverse edges after zapDefOrClobberCache (under SpecInval).   *)
(***************************************************************************)
\* (L, C) is listed in no reverse index of the state s.
unlinked(s, L) ==
    /\ \A I \in Values : <<L, RootCtx>> \notin s.memWriterEffects[I]
    /\ \A I \in Values : <<L, RootCtx>> \notin Range(s.callBlockedPBLoads[I])
    /\ <<L, RootCtx>> \notin s.CFGDependentPBLoads

\* C17: in every reachable state and for every load L, the state that
\* zapDefOrClobberCache(L) returns lists (L, C) in no memWriterEffects,
\* callBlockedPBLoads or CFGDependentPBLoads, and no callBlockedPBLoads
\* entry lists a load twice.
C17_ZapUnlinksReverseEdges ==
    /\ \A L \in LoadInsts : unlinked(zapDefOrClobberCache(SolverState, L), L)
    /\ \A I \in Values : Len(callBlockedPBLoads[I]) = Cardinality(Range(callBlockedPBLoads[I]))

(***************************************************************************)
(* C18.  Invalidated loads are queued (checked under SpecInval).           *)
(***************************************************************************)
\* Every load the step zaps is on a queue of the solver when it ends.
queuedByInvalidation ==
    [][InvalidationStep =>
           \A LC \in lastInval'.loads :
               make_vc(LC[1], LC[2]) \in
                   Range(pendingPBChecks') \cup Range(PBQueue1') \cup Range(PBQueue2')]_vars

\* C18 as stated: every invalidation through zapDefOrClobberCache(L) leaves
\* (L, C) on a queue of the solver, and when the solver has run again
\* every such (L, C) has been evaluated by updateBasePointer.
C18_ZapEnqueuesAndReevaluates ==
    /\ queuedByInvalidation
    /\ [](pc = "done" => requeued = {})

\* C18, amended: every invalidation through zapDefOrClobberCache(L) leaves
\* (L, C) on a queue of the solver, and when the solver has run again
\* every such (L, C) has been evaluated by updateBasePointer unless
\* shouldCheckPB rejects L.
C18_ZapEnqueuesForTriage ==
    /\ queuedByInvalidation
    /\ [](pc = "done" => \A LC \in requeued : ~shouldCheckPB(SolverState, LC[1]))

\* The load m was zapped and queued by an invalidation and the solver has
\* evaluated it again; the load k was zapped and queued too and has not
\* been evaluated, having the single value of its initialiser.
C18_Witness ==
    /\ pc = "done"
    /\ runs = 2
    /\ lastInval.kind = "cfg"
    /\ lastInval.loads = {<<16, RootCtx>>, <<19, RootCtx>>}
    /\ requeued = {<<16, RootCtx>>}
    /\ defOrClobberCache[19] # <<>>
    /\ defOrClobberCache[16] = <<>>

(***************************************************************************)
(* C19.  localCFGChanged (checked under SpecInval).                        *)
(***************************************************************************)
\* C19: a step of localCFGChanged() leaves every (L, C') that was in
\* CFGDependentPBLoads without a positive and without a negative cache
\* entry and on the pending queue, and leaves CFGDependentPBLoads empty.
C19_LocalCFGChangedDropsAll ==
    [][(\E b \in DeadCandidates : LocalCFGChanged(b)) =>
           /\ \A LC \in CFGDependentPBLoads :
                  /\ defOrClobberCache'[LC[1]] = <<>>
                  /\ failedLFACache'[LC[1]] = <<>>
                  /\ make_vc(LC[1], LC[2]) \in Range(pendingPBChecks')
           /\ CFGDependentPBLoads' = {}]_vars

\* localCFGChanged() has found the loads r and w registered, both with a
\* cache entry, and nothing has happened since.
C19_Witness ==
    /\ pc = "idle"
    /\ lastInval.kind = "cfg"
    /\ lastInval.loads = {<<10, RootCtx>>, <<20, RootCtx>>}
    /\ lastInval.before.defOrClobberCache[10] # <<>>
    /\ lastInval.before.defOrClobberCache[20] # <<>>
    /\ defOrClobberCache[10] = <<>> /\ defOrClobberCache[20] = <<>>
    /\ CFGDependentPBLoads = {}
    /\ {make_vc(10, RootCtx), make_vc(20, RootCtx)} \subseteq Range(pendingPBChecks)

(***************************************************************************)
(* C20.  A hit of the negative cache (checked under Spec).                 *)
(***************************************************************************)
\* The caches and reverse indices of s are those of the current state.
cachesUntouched(s) ==
    /\ s.defOrClobberCache = defOrClobberCache
    /\ s.failedLFACache = failedLFACache
    /\ s.memWriterEffects = memWriterEffects
    /\ s.callBlockedPBLoads = callBlockedPBLoads
    /\ s.CFGDependentPBLoads = CFGDependentPBLoads

negativeHit(r, L) ==
    /\ ~r.walked
    /\ r.ret
    /\ exactlyOverdef(r.pb)
    /\ r.status = <<failedLFACache[L][1]>>
    /\ cachesUntouched(r.s)

\* C20: in every reachable state, for every load L with a failedLFACache
\* entry and for either value of finalise, tryForwardLoadPB(L, finalise)
\* does not walk memory, returns true with the overdefined fact, records
\* the cached string as the reason, and leaves both caches and the three
\* reverse indices as they were.
C20_NegativeCacheHit ==
    \A L \in LoadInsts :
        failedLFACache[L] # <<>> =>
            \A fin \in BOOLEAN : negativeHit(tryForwardLoadPB(SolverState, L, fin), L)

\* In the second run the load f, whose walk reached the entry of main in
\* the first, has been evaluated again and is overdefined.
C20_Witness ==
    /\ runs = 2
    /\ pc = "valuePessimistic"
    /\ lastUpdate.V = 12
    /\ ~lastUpdate.finalise
    /\ lastUpdate.stored
    /\ exactlyOverdef(lastUpdate.NewPB)
    /\ afterRun[12] # <<>>
    /\ failedLFACache[12] = <<"Reached main">>
    /\ defOrClobberCache[12] = <<>>

(***************************************************************************)
(* C21.  What updateBasePointer returns, stores and queues (checked under  *)
(* Spec, for every value and both phases in every reachable state).        *)
(***************************************************************************)
\* The early returns of updateBasePointer: nothing is computed.
quickEscape(s, V, fin) ==
    \/ isInstruction(V) /\ getOpcode(V) \notin HandledOpcodes
    \/ NoLoop = getValueScope(V) /\ hasResolvedPB(s, V)
    \/ fin /\ \A Old \in {getPointerBaseFalling(s, V)} : Old = <<>> \/ Old[1].Overdef

\* A new fact was computed and V had no visible fact or a different one.
newFactDiffers(s, V, fin) ==
    /\ ~quickEscape(s, V, fin)
    /\ \A c \in {computeNewPB(s, V, fin)}, Old \in {getPointerBaseFalling(s, V)} :
           c.ret /\ (Old = <<>> \/ ~PBEq(Old[1], c.pb))

\* What is evaluated on behalf of a user U of V: U itself, or the loads
\* registered against U when U is a store; nothing for a call that is not
\* inlined, for a user in a dead block, or for a resolved user.
userWork(s, U) ==
    IF blockIsDead(getParent(U)) \/ getOpcode(U) = "Call" THEN {}
    ELSE IF getValueScope(U) = NoLoop /\ hasResolvedPB(s, U) THEN {}
    ELSE IF getOpcode(U) = "Store" THEN { make_vc(LC[1], LC[2]) : LC \in s.memWriterEffects[U] }
    ELSE { make_vc(U, RootCtx) }

inGroup(s, VC) == s.PBsConsideredThisRun[VC[1]] # <<>>

\* The call of updateBasePointer the driver is about to make, as <<s, V,
\* finalise>>: for a loop-free value after the snapshot and the erasure,
\* then in the pessimistic phase; for a loop group the head of the sweep.
updateCalls ==
    IF pc = "values" /\ ValuesToCheck # <<>>
    THEN { <<erasePointerBase(
                 [SolverState EXCEPT
                      !.PBsConsideredThisRun =
                          [NoFacts EXCEPT ![V] = IF pointerBases[V] # <<>> THEN pointerBases[V]
                                                 ELSE <<NullPB>>]], V), V, FALSE>> :
               V \in {Head(ValuesToCheck)[1]} }
    ELSE IF pc = "valuePessimistic" THEN { <<SolverState, Head(ValuesToCheck)[1], TRUE>> }
    ELSE IF pc = "sweep" /\ sweep # <<>>
    THEN { <<SolverState, Head(sweep)[1], solverFinalise>> }
    ELSE {}

\* The return value, the store and the false return of updateBasePointer.
returnsTrueIffStored(s, V, fin) ==
    \A r \in {updateBasePointer(s, V, fin)} :
        /\ r.ret <=> r.s.pointerBases # s.pointerBases
        /\ r.ret <=> newFactDiffers(s, V, fin)
        /\ r.ret => r.s.pointerBases = [s.pointerBases EXCEPT ![V] = <<r.NewPB>>]
        /\ ~r.ret => r.s.produced = <<>> /\ r.s.pended = <<>>

\* C21 as stated: updateBasePointer(V, finalise) returns true exactly when
\* it stored a fact for V, which is exactly when a new fact was computed
\* and V had no visible fact or a different one, and then the work of
\* every user of V is on the queue; when it returns false pointerBases is
\* unchanged and nothing is queued.
C21_UpdateReturnsStoredAndQueuesUsers ==
    \A c \in updateCalls :
        /\ returnsTrueIffStored(c[1], c[2], c[3])
        /\ \A r \in {updateBasePointer(c[1], c[2], c[3])} :
               r.ret => \A U \in Users(c[2]) : userWork(r.s, U) \subseteq Range(r.s.produced)

\* C21, amended: as above, but of the users of V only those of the group
\* being solved (PBsConsideredThisRun) are queued, and nothing else is.
C21_UpdateReturnsStoredAndQueuesGroup ==
    \A c \in updateCalls :
        /\ returnsTrueIffStored(c[1], c[2], c[3])
        /\ \A r \in {updateBasePointer(c[1], c[2], c[3])} :
               r.ret => /\ r.s.pended = <<>>
                        /\ Range(r.s.produced) =
                               { VC \in UNION { userWork(r.s, U) : U \in Users(c[2]) } :
                                     inGroup(r.s, VC) }

\* In the optimistic phase of a loop group the call of updateBasePointer
\* the driver is about to make stores a fact and queues a user of the
\* group; a call has already returned false in this run.
C21_Witness ==
    /\ pc = "sweep"
    /\ ~solverFinalise
    /\ \E c \in updateCalls : \E r \in {updateBasePointer(c[1], c[2], c[3])} :
           r.ret /\ r.s.produced # <<>>
    /\ lastUpdate.V # 0 /\ ~lastUpdate.stored /\ ~lastUpdate.finalise

(***************************************************************************)
(* C22.  The transfer function of the binary operators (checked under      *)
(* SpecBinop: the instruction b = Opcode(x, y) of a root context, for      *)
(* every opcode and every pair of operand facts of BinopOperandFacts,      *)
(* evaluated once by updateBasePointer(b, false)).                         *)
(***************************************************************************)
BinopOpcodes == {"Add", "Sub", "And", "Or", "Xor"}

\* x = phi, y = phi, b = Opcode(x, y): the operands are PHIs, whose facts
\* may be pointer sets, scalar sets or overdefined.
BinopProgram(Opcode) ==
    << Instr("PHI", <<>>, NoLoop), Instr("PHI", <<>>, NoLoop), Instr(Opcode, <<1, 2>>, NoLoop) >>

\* The binary operator is the last instruction of the program.
BinopInst == Len(prog)

scalarFact(ns) ==
    insertFrom(PointerBase("Scalar", FALSE), [k \in 1..Len(ns) |-> const_vc(C(ns[k]))], 1)

pointerFact(gs) ==
    insertFrom(PointerBase("PB", FALSE), [k \in 1..Len(gs) |-> const_vc(gs[k])], 1)

\* No fact, overdefined, pointer sets and scalar sets; the scalar sets give
\* cross products of 1, 4, 16 (= PBMAX), 18 and 20 results under Add.
BinopOperandFacts ==
    { <<>>, <<getOverdef>>, <<pointerFact(<<GlobalG>>)>>, <<pointerFact(<<GlobalG, GlobalH>>)>>,
      <<scalarFact(<<1>>)>>, <<scalarFact(<<0, 1, 2, 3>>)>>, <<scalarFact(<<0, 4, 8, 12>>)>>,
      <<scalarFact(<<0, 1, 2, 3, 4, 5, 6, 7, 8>>)>>, <<scalarFact(<<0, 9>>)>>,
      <<scalarFact(<<0, 5, 10, 15, 20>>)>> }

InitBinop ==
    /\ IdlePB
    /\ IdleMerge
    /\ prog \in { BinopProgram(Opcode) : Opcode \in BinopOpcodes }
    /\ addrDown = FALSE
    /\ deadBlocks = {}
    /\ inlineChildren = {}
    /\ ctxTree = NoTree
    /\ lfa = NoAttempt
    /\ callBlockedPBLoads = [V \in Values |-> <<>>]
    /\ requeued = {}
    /\ baseline = <<>>
    /\ extraDead = 0
    /\ lastInval = NoInval
    /\ pointerBases \in { [NoFacts EXCEPT ![1] = A, ![2] = B] :
                              A \in BinopOperandFacts, B \in BinopOperandFacts }
    /\ improvedValues = NoFacts
    /\ defOrClobberCache = NoFacts
    /\ failedLFACache = NoFacts
    /\ memWriterEffects = [V \in Values |-> {}]
    /\ CFGDependentPBLoads = {}
    /\ PBsConsideredThisRun = NoFacts
    /\ PBQueue1 = <<>>
    /\ PBQueue2 = <<>>
    /\ PBProduceQ = 1
    /\ pendingPBChecks1 = <<>>
    /\ pendingPBChecks2 = <<>>
    /\ producePendingPBChecks = 1
    /\ pc = "binop"
    /\ LoopsToCheck = <<>>
    /\ ValuesToCheck = <<>>
    /\ solverFinalise = FALSE
    /\ ConsumeQ = 2
    /\ sweep = <<>>
    /\ updatedVCs = <<>>
    /\ asserts = {}
    /\ seeds = {}
    /\ runs = 0
    /\ lastUpdate = NoUpdate
    /\ afterRun = <<>>
    /\ owed = {}

\* updateBasePointer(b, false): the case of the binary operators calls
\* updateBinopValSet and stores what it returns.
EvalBinop ==
    /\ pc = "binop"
    /\ \E r \in {updateBasePointer(SolverState, BinopInst, FALSE)} :
           /\ Adopt(r.s)
           /\ lastUpdate' = historyOf(BinopInst, FALSE, r)
    /\ pc' = "done"
    /\ UNCHANGED <<pbVars, mergeVars, progVars, clientVars, PBProduceQ, producePendingPBChecks,
                   LoopsToCheck, ValuesToCheck, solverFinalise, ConsumeQ, sweep,
                   updatedVCs, seeds, runs, afterRun, owed, requeued>>

SpecBinop == InitBinop /\ [][EvalBinop]_vars

isOverdefFact(F) == F # <<>> /\ F[1].Overdef

isPointerSet(F) == F # <<>> /\ ~F[1].Overdef /\ F[1].Type = "PB"

isScalarSet(F) == F # <<>> /\ ~F[1].Overdef /\ F[1].Type = "Scalar"

constantsOf(F) == { VC[1] : VC \in Range(F[1].Values) }

\* The constants the opcode gives on the cross product of two scalar sets.
crossProduct(Opcode, A, B) ==
    LET r(a, b) == IF Opcode = "Add" THEN a + b
                   ELSE IF Opcode = "Sub" THEN a - b
                   ELSE bitwise(Opcode, a, b, 7)
    IN  { C(r(a - ConstBase, b - ConstBase) % (WideBase - ConstBase)) :
              a \in constantsOf(A), b \in constantsOf(B) }

\* R is the cross-product fold of the scalar sets A and B, overdefined when
\* it has more than PBMAX constants.
isCrossFold(Opcode, A, B, R) ==
    IF Cardinality(crossProduct(Opcode, A, B)) > PBMAX THEN isOverdefFact(R)
    ELSE isScalarSet(R) /\ constantsOf(R) = crossProduct(Opcode, A, B)

\* C22 as stated: if both operands are pointer sets the result is
\* overdefined; if exactly one is a pointer set and the opcode is Add or
\* Sub the result is that operand's fact; in every other case where both
\* operands have facts the result is the cross-product fold, overdefined
\* when either operand is overdefined or more than PBMAX results arise.
C22_BinopTransfer ==
    pc = "done" =>
        \A Opcode \in {getOpcode(BinopInst)} :
        \A A \in {pointerBases[1]}, B \in {pointerBases[2]}, R \in {pointerBases[BinopInst]} :
            IF isPointerSet(A) /\ isPointerSet(B) THEN isOverdefFact(R)
            ELSE IF (isPointerSet(A) \/ isPointerSet(B)) /\ Opcode \in {"Add", "Sub"}
            THEN R = IF isPointerSet(A) THEN A ELSE B
            ELSE (A # <<>> /\ B # <<>>) =>
                     IF isOverdefFact(A) \/ isOverdefFact(B) THEN isOverdefFact(R)
                     ELSE IF isScalarSet(A) /\ isScalarSet(B) THEN isCrossFold(Opcode, A, B, R)
                     ELSE R # <<>>

\* C22, amended: if both operands have facts and either is overdefined the
\* result is overdefined; otherwise, if an operand is a pointer set, the
\* result for Add and Sub is overdefined when both are pointer sets and
\* the pointer operand's fact when one is, and And, Or and Xor give no
\* fact; if both operands are scalar sets the result is the cross-product
\* fold, overdefined when more than PBMAX results arise.
C22_BinopTransferByOpcode ==
    pc = "done" =>
        \A Opcode \in {getOpcode(BinopInst)} :
        \A A \in {pointerBases[1]}, B \in {pointerBases[2]}, R \in {pointerBases[BinopInst]} :
            IF A # <<>> /\ B # <<>> /\ (isOverdefFact(A) \/ isOverdefFact(B))
            THEN isOverdefFact(R)
            ELSE IF isPointerSet(A) \/ isPointerSet(B)
            THEN IF Opcode \notin {"Add", "Sub"} THEN R = <<>>
                 ELSE IF isPointerSet(A) /\ isPointerSet(B) THEN isOverdefFact(R)
                 ELSE R = IF isPointerSet(A) THEN A ELSE B
            ELSE (isScalarSet(A) /\ isScalarSet(B)) => isCrossFold(Opcode, A, B, R)

\* Xor of two scalar sets has been folded to a set of exactly PBMAX
\* constants.
C22_Witness ==
    /\ pc = "done"
    /\ getOpcode(BinopInst) = "Xor"
    /\ isScalarSet(pointerBases[1]) /\ isScalarSet(pointerBases[2])
    /\ isScalarSet(pointerBases[BinopInst])
    /\ Len(pointerBases[BinopInst][1].Values) = PBMAX

(***************************************************************************)
(* C23.  The header PHI of a peeled loop (checked under SpecPeel: the root *)
(* context and MaxIters iterations of a loop peeled in it; pointerBases    *)
(* maps each context to its own pointerBases map).                         *)
(***************************************************************************)
\* x is defined before the loop, p = phi [x, preheader], [q, latch] is in
\* the header of the loop and q in its body.
PeelProgram ==
    << Instr("Select", <<>>, NoLoop), Instr("PHI", <<1, 3>>, 1), Instr("Select", <<>>, 1) >>

HeaderPHI == Len(PeelProgram) - 1

PeelIterations == { RootCtx + k : k \in 1..MaxIters }

PeelCtxs == {RootCtx} \cup PeelIterations

\* PeelIteration::getIterCount and IntegrationAttempt::parent: every
\* iteration is a child of the context that holds the loop.
getIterCount(Ctx) == Ctx - RootCtx - 1

getIteration(k) == RootCtx + 1 + k

parentOf(Ctx) == IF Ctx \in PeelIterations THEN RootCtx ELSE 0

\* PN->getIncomingValueForBlock(L->getLoopPreheader()) and (L->getLoopLatch()).
preheaderValue(PN) == prog[PN].ops[1]

latchValue(PN) == prog[PN].ops[2]

\* getPointerBaseLocal and getPointerBaseFalling of context Ctx.
getPointerBaseLocalIn(pbs, Ctx, V) == pbs[Ctx][V]

RECURSIVE getPointerBaseFallingIn(_, _, _)
getPointerBaseFallingIn(pbs, Ctx, V) ==
    IF getPointerBaseLocalIn(pbs, Ctx, V) # <<>> THEN getPointerBaseLocalIn(pbs, Ctx, V)
    ELSE IF parentOf(Ctx) # 0 THEN getPointerBaseFallingIn(pbs, parentOf(Ctx), V)
    ELSE <<>>

\* The header PHI reads the latch value in its own iteration.
PeelIteration_updateHeaderPHIPB_sameIteration(pbs, Ctx, PN) ==
    [handled |-> TRUE,
     NewPB |-> IF getIterCount(Ctx) = 0
               THEN getPointerBaseFallingIn(pbs, parentOf(Ctx), preheaderValue(PN))
               ELSE getPointerBaseFallingIn(pbs, Ctx, latchValue(PN))]

\* PeelIteration::updateHeaderPHIPB: [handled, NewPB], NewPB being <<>> when
\* NewPBValid is false.
PeelIteration_updateHeaderPHIPB(pbs, Ctx, PN) ==
    IF getValueScope(PN) # NoLoop /\ PN = HeaderPHI
    THEN [handled |-> TRUE,
          NewPB |-> IF getIterCount(Ctx) = 0
                    THEN getPointerBaseFallingIn(pbs, parentOf(Ctx), preheaderValue(PN))
                    ELSE getPointerBaseFallingIn(pbs, getIteration(getIterCount(Ctx) - 1),
                                                 latchValue(PN))]
    ELSE [handled |-> FALSE, NewPB |-> <<>>]

\* updateBasePointer(PN, finalise) in iteration Ctx, for a PHI that
\* updateHeaderPHIPB handles: the new map and the return value.
updateHeaderPHI(pbs, Ctx, PN, fin) ==
    LET Old == getPointerBaseFallingIn(pbs, Ctx, PN)
        r == PeelIteration_updateHeaderPHIPB(pbs, Ctx, PN)
    IN  IF fin /\ (Old = <<>> \/ Old[1].Overdef) THEN [ret |-> FALSE, pbs |-> pbs]
        ELSE IF ~r.handled \/ r.NewPB = <<>> THEN [ret |-> FALSE, pbs |-> pbs]
        ELSE IF Old = <<>> \/ ~PBEq(Old[1], r.NewPB[1])
        THEN [ret |-> TRUE, pbs |-> [pbs EXCEPT ![Ctx][PN] = r.NewPB]]
        ELSE [ret |-> FALSE, pbs |-> pbs]

PeelFacts ==
    { <<>>, <<getOverdef>>, <<scalarFact(<<1>>)>>, <<pointerFact(<<GlobalG>>)>> }

\* The facts of x (in the root context), of q (in every context) and of p
\* in the root context, which analyses the loop in its general form.
InitPeel ==
    /\ IdlePB
    /\ IdleMerge
    /\ prog = PeelProgram
    /\ addrDown = FALSE
    /\ deadBlocks = {}
    /\ inlineChildren = {}
    /\ ctxTree = NoTree
    /\ lfa = NoAttempt
    /\ callBlockedPBLoads = [V \in Values |-> <<>>]
    /\ requeued = {}
    /\ baseline = <<>>
    /\ extraDead = 0
    /\ lastInval = NoInval
    /\ pointerBases \in
           { [Ctx \in PeelCtxs |->
                  [V \in Values |->
                       IF V = HeaderPHI THEN (IF Ctx = RootCtx THEN fp ELSE <<>>)
                       ELSE IF V = preheaderValue(HeaderPHI)
                       THEN (IF Ctx = RootCtx THEN fx ELSE <<>>)
                       ELSE fq[Ctx]]] :
                 fx \in PeelFacts \ {<<>>}, fp \in {<<>>, <<getOverdef>>},
                 fq \in [PeelCtxs -> PeelFacts] }
    /\ improvedValues = NoFacts
    /\ defOrClobberCache = NoFacts
    /\ failedLFACache = NoFacts
    /\ memWriterEffects = [V \in Values |-> {}]
    /\ CFGDependentPBLoads = {}
    /\ PBsConsideredThisRun = NoFacts
    /\ PBQueue1 = <<>>
    /\ PBQueue2 = <<>>
    /\ PBProduceQ = 1
    /\ pendingPBChecks1 = <<>>
    /\ pendingPBChecks2 = <<>>
    /\ producePendingPBChecks = 1
    /\ pc = "peel"
    /\ LoopsToCheck = <<>>
    /\ ValuesToCheck = <<>>
    /\ solverFinalise = FALSE
    /\ ConsumeQ = 2
    /\ sweep = <<>>
    /\ updatedVCs = <<>>
    /\ asserts = {}
    /\ seeds = {}
    /\ runs = 0
    /\ lastUpdate = NoUpdate
    /\ afterRun = <<>>
    /\ owed = {}

\* updateBasePointer(p, finalise) in iteration Ctx.
EvalHeaderPHI(Ctx, fin) ==
    /\ pc = "peel"
    /\ \E r \in {updateHeaderPHI(pointerBases, Ctx, HeaderPHI, fin)} :
           /\ pointerBases' = r.pbs
           /\ lastUpdate' = [V |-> HeaderPHI, Ctx |-> Ctx, finalise |-> fin, stored |-> r.ret]
    /\ UNCHANGED <<pbVars, mergeVars, progVars, clientVars, improvedValues, defOrClobberCache,
                   failedLFACache, memWriterEffects, CFGDependentPBLoads, callBlockedPBLoads,
                   PBsConsideredThisRun, queueVars, driverVars, asserts, seeds, runs,
                   afterRun, owed, requeued>>

NextPeel == \E Ctx \in PeelIterations, fin \in BOOLEAN : EvalHeaderPHI(Ctx, fin)

SpecPeel == InitPeel /\ [][NextPeel]_vars

\* The one source of the header PHI in iteration Ctx: the preheader value
\* seen from the parent context, or the latch value seen from the previous
\* iteration (getPointerBaseFalling in that context).
headerSource(Ctx) ==
    IF getIterCount(Ctx) = 0
    THEN getPointerBaseFallingIn(pointerBases, parentOf(Ctx), preheaderValue(HeaderPHI))
    ELSE getPointerBaseFallingIn(pointerBases, Ctx - 1, latchValue(HeaderPHI))

\* C23: an evaluation of the header PHI in iteration 0 leaves it with the
\* fact of the preheader incoming value looked up in the parent context,
\* and in iteration N > 0 with the fact of the latch incoming value looked
\* up in iteration N - 1, whatever the facts of the other incoming value
\* and of the other contexts; if that source has no fact nothing is stored
\* (in the pessimistic phase a PHI without a fact, or overdefined, is not
\* evaluated at all).
C23_HeaderPHISource ==
    [][\A Ctx \in PeelIterations, fin \in BOOLEAN :
           EvalHeaderPHI(Ctx, fin) =>
               \A Old \in {getPointerBaseFallingIn(pointerBases, Ctx, HeaderPHI)} :
                   IF (fin /\ (Old = <<>> \/ Old[1].Overdef)) \/ headerSource(Ctx) = <<>>
                   THEN pointerBases' = pointerBases
                   ELSE /\ \A New \in {getPointerBaseFallingIn(pointerBases', Ctx, HeaderPHI)} :
                               New # <<>> /\ PBEq(New[1], headerSource(Ctx)[1])
                        /\ \A C2 \in PeelCtxs, V \in Values :
                               <<C2, V>> # <<Ctx, HeaderPHI>> =>
                                   pointerBases'[C2][V] = pointerBases[C2][V]]_vars

\* The PHI of the second iteration holds the fact of q of the first
\* iteration, which differs from the facts of q in the second iteration and
\* in the root context and from the fact of x; the PHI of the first
\* iteration holds the fact of x.
C23_Witness ==
    /\ pc = "peel"
    /\ \E I0 \in {getIteration(0)}, I1 \in {getIteration(1)}, q \in {latchValue(HeaderPHI)},
          x \in {preheaderValue(HeaderPHI)} :
           /\ pointerBases[I1][HeaderPHI] # <<>>
           /\ pointerBases[I1][HeaderPHI] = pointerBases[I0][q]
           /\ pointerBases[I1][q] \notin {<<>>, pointerBases[I0][q]}
           /\ pointerBases[RootCtx][q] \notin {<<>>, pointerBases[I0][q]}
           /\ pointerBases[RootCtx][x] # pointerBases[I0][q]
           /\ pointerBases[I0][HeaderPHI] = pointerBases[RootCtx][x]

(***************************************************************************)
(* The context tree (SpecTree).  The root context analyses f; f calls g    *)
(* from its loop 1, loop 2 is nested in loop 1, and loop 3 is the loop of  *)
(* g.  A context is the path to it from the root context: an element       *)
(* <<"iter", L, i>> for iteration i of the peel attempt of loop L,         *)
(* <<"call", CI>> for the InlineAttempt of the call CI.  pointerBases,     *)
(* improvedValues and PBsConsideredThisRun map each context to its own     *)
(* map; deadBlocks holds pairs <<context, instruction>>.                   *)
(***************************************************************************)
\* natural is LI->getLoopFor(I->getParent()), scope is getValueScope(I):
\* instruction 5 is in a block of loop 2 and invariant in loop 2.
TreeInstr(op, fn, natural, scope) ==
    [op |-> op, ops |-> <<>>, scope |-> scope, walk |-> <<>>, top |-> FALSE,
     fn |-> fn, natural |-> natural]

TreeProgram ==
    << TreeInstr("Argument", "f", 0, 0),
       TreeInstr("Select", "f", 0, 0),
       TreeInstr("Select", "f", 1, 1),
       TreeInstr("Select", "f", 2, 2),
       TreeInstr("Select", "f", 2, 1),
       TreeInstr("Call", "f", 1, 1),
       TreeInstr("Argument", "g", 0, 0),
       TreeInstr("Select", "g", 0, 0),
       TreeInstr("Select", "g", 3, 3) >>

\* Loop::getParentLoop and the function of each loop.
LoopParents == <<0, 1, 0>>

LoopFns == <<"f", "f", "g">>

TreeLoops == 1..Len(LoopParents)

getParentLoop(L) == LoopParents[L]

\* Loop::contains(const Loop*) called on a loop.
RECURSIVE loopContains(_, _)
loopContains(L, M) ==
    IF M = L THEN TRUE
    ELSE IF M = NoLoop THEN FALSE
    ELSE loopContains(L, getParentLoop(M))

\* L->contains(M) where L may be null: a member call through a null
\* pointer, whose result depends on the build.
containsOrNull(L, M) == IF L = NoLoop THEN ctxTree.nullThis ELSE loopContains(L, M)

\* The child of Parent that contains Child (or is Child).
RECURSIVE immediateChildLoop(_, _)
immediateChildLoop(Parent, Child) ==
    IF Child = NoLoop THEN NoLoop
    ELSE IF getParentLoop(Child) = Parent THEN Child
    ELSE immediateChildLoop(Parent, getParentLoop(Child))

TreeRoot == <<>>

\* PeelAttempt::Iterations: every peel attempt of the tree has a first
\* iteration and a last one, Iterations.back().
TreeIterations == <<"first", "last">>

IterOf(Ctx, L, i) == Append(Ctx, <<"iter", L, TreeIterations[i]>>)

InlineOf(Ctx, CI) == Append(Ctx, <<"call", CI>>)

parentCtx(Ctx) == SubSeq(Ctx, 1, Len(Ctx) - 1)

isPeelIteration(Ctx) == Ctx # TreeRoot /\ Ctx[Len(Ctx)][1] = "iter"

\* getLoopContext(): the loop of a PeelIteration, null for an InlineAttempt.
getLoopContext(Ctx) == IF isPeelIteration(Ctx) THEN Ctx[Len(Ctx)][2] ELSE NoLoop

RECURSIVE functionOf(_)
functionOf(Ctx) ==
    IF Ctx = TreeRoot THEN "f"
    ELSE IF isPeelIteration(Ctx) THEN functionOf(parentCtx(Ctx))
    ELSE "g"

valuesOf(Ctx) == { V \in 1..Len(TreeProgram) : TreeProgram[V].fn = functionOf(Ctx) }

PeelStatuses == {"none", "nonfinal", "final"}

\* getPeelAttempt(L) in context Ctx of the tree T: "none" when Ctx has no peel
\* attempt for L, else the status of the last iteration of the attempt.
\* A context holds the attempts of the loops directly inside its own.
peelStatusT(T, Ctx, L) ==
    IF L \in TreeLoops /\ LoopFns[L] = functionOf(Ctx) /\ getParentLoop(L) = getLoopContext(Ctx)
    THEN T.peel[L]
    ELSE "none"

\* The calls of Ctx that have an InlineAttempt.
inlineChildrenT(T, Ctx) ==
    { CI \in valuesOf(Ctx) :
          /\ TreeProgram[CI].op = "Call"
          /\ \/ Ctx = TreeRoot /\ "root" \in T.inl
             \/ isPeelIteration(Ctx) /\ getLoopContext(Ctx) = TreeProgram[CI].natural
                /\ "iter" \in T.inl }

RECURSIVE subtreeT(_, _)
subtreeT(T, Ctx) ==
    {Ctx}
    \cup UNION { subtreeT(T, IterOf(Ctx, L, i)) :
                     L \in { X \in TreeLoops : peelStatusT(T, Ctx, X) # "none" },
                     i \in 1..Len(TreeIterations) }
    \cup UNION { subtreeT(T, InlineOf(Ctx, CI)) : CI \in inlineChildrenT(T, Ctx) }

\* The contexts of the tree are those that hold facts.
TreeCtxs == DOMAIN pointerBases

getPeelStatus(Ctx, L) == peelStatusT(ctxTree, Ctx, L)

contextIsDead(Ctx) == Ctx \in ctxTree.dead

blockIsDeadIn(Ctx, V) == <<Ctx, V>> \in deadBlocks

hasResolvedPBIn(Ctx, V) == improvedValues[Ctx][V] # <<>>

\* getPointerBaseFalling in context Ctx of the tree.
RECURSIVE getPointerBaseFallingTree(_, _, _)
getPointerBaseFallingTree(pbs, Ctx, V) ==
    IF pbs[Ctx][V] # <<>> THEN pbs[Ctx][V]
    ELSE IF getLoopContext(Ctx) # NoLoop THEN getPointerBaseFallingTree(pbs, parentCtx(Ctx), V)
    ELSE <<>>

\* shouldCheckPB without the test of the peel attempt above the value.
shouldCheckPBIn_noPeelTest(pbs, Ctx, V) ==
    /\ ~contextIsDead(Ctx)
    /\ ~hasResolvedPBIn(Ctx, V)
    /\ ~(isInstruction(V) /\ blockIsDeadIn(Ctx, V))
    /\ \A MyL \in {getLoopContext(Ctx)}, VL \in {getValueScope(V)} :
           ~(MyL # VL /\ MyL # NoLoop /\ ~loopContains(MyL, VL))
    /\ \A PB \in {getPointerBaseFallingTree(pbs, Ctx, V)} :
           ~(PB # <<>> /\ Len(PB[1].Values) = 1)

\* IntegrationAttempt::shouldCheckPB(V) in context Ctx, the facts being pbs.
shouldCheckPBIn(pbs, Ctx, V) ==
    IF contextIsDead(Ctx) THEN FALSE
    ELSE IF hasResolvedPBIn(Ctx, V) THEN FALSE
    ELSE IF isInstruction(V) /\ blockIsDeadIn(Ctx, V) THEN FALSE
    ELSE \A MyL \in {getLoopContext(Ctx)}, VL \in {getValueScope(V)} :
             IF MyL # VL /\ MyL # NoLoop /\ ~loopContains(MyL, VL) THEN FALSE
             ELSE IF MyL # VL /\ getPeelStatus(Ctx, immediateChildLoop(MyL, VL)) = "final"
             THEN FALSE
             ELSE \A PB \in {getPointerBaseFallingTree(pbs, Ctx, V)} :
                      ~(PB # <<>> /\ Len(PB[1].Values) = 1)

\* The null IntegrationAttempt* of a pair (context, loop).
NullCtx == << <<"null">> >>

NoUnboundLoop == <<NullCtx, NoLoop>>

\* getOutermostUnboundLoop(): PeelIteration::, InlineAttempt:: and the two
\* overloads of IntegrationAttempt that take the child's loop or call.
RECURSIVE getOutermostUnboundLoop(_), getOutermostUnboundLoopOfLoop(_, _)
RECURSIVE getOutermostUnboundLoopOfCall(_, _)
getOutermostUnboundLoop(Ctx) ==
    IF isPeelIteration(Ctx)
    THEN IF ctxTree.peel[getLoopContext(Ctx)] = "final"
         THEN getOutermostUnboundLoopOfLoop(parentCtx(Ctx), getLoopContext(Ctx))
         ELSE NoUnboundLoop
    ELSE IF Ctx # TreeRoot
    THEN getOutermostUnboundLoopOfCall(parentCtx(Ctx), Ctx[Len(Ctx)][2])
    ELSE NoUnboundLoop

getOutermostUnboundLoopOfLoop(Ctx, childLoop) ==
    LET orHere(SubResult) ==
            IF SubResult[1] = NullCtx
            THEN <<Ctx, immediateChildLoop(getLoopContext(Ctx), childLoop)>>
            ELSE SubResult
    IN  IF childLoop # NoLoop /\ immediateChildLoop(getLoopContext(Ctx), childLoop) # childLoop
        THEN orHere(getOutermostUnboundLoop(Ctx))
        ELSE getOutermostUnboundLoop(Ctx)

getOutermostUnboundLoopOfCall(Ctx, CI) ==
    LET orHere(SubResult) ==
            IF SubResult[1] = NullCtx
            THEN <<Ctx, immediateChildLoop(getLoopContext(Ctx), TreeProgram[CI].natural)>>
            ELSE SubResult
    IN  IF getLoopContext(Ctx) # TreeProgram[CI].natural
        THEN orHere(getOutermostUnboundLoop(Ctx))
        ELSE getOutermostUnboundLoop(Ctx)

\* IntegrationAttempt::getOutermostLoop(V) in context Ctx, NaturalVL being
\* LI[&F]->getLoopFor(I->getParent()).
getOutermostLoopFrom(Ctx, NaturalVL) ==
    LET MyL == getLoopContext(Ctx)
        VL == IF MyL = NaturalVL THEN NaturalVL ELSE immediateChildLoop(MyL, NaturalVL)
        unboundLoopHere == VL # MyL /\ getPeelStatus(Ctx, VL) # "final"
        orHere(outermostUB) ==
            IF outermostUB[1] = NullCtx /\ unboundLoopHere THEN <<Ctx, VL>> ELSE outermostUB
    IN  orHere(getOutermostUnboundLoop(Ctx))

\* cast<Instruction>(V) of an argument fails its assertion; without
\* assertions I->getParent() reads a field an argument does not have, and
\* the loop found for it, garbage, is any loop or none.
getOutermostLoopIn(Ctx, V, garbage) ==
    IF isInstruction(V)
    THEN [pair |-> getOutermostLoopFrom(Ctx, TreeProgram[V].natural), asserts |-> {}]
    ELSE [pair |-> getOutermostLoopFrom(Ctx, garbage),
          asserts |-> {"cast<Ty>() argument of incompatible type!"}]

GarbageLoops == 0..Len(LoopParents)

\* Step 1 of the driver's loop over the pending checks of the tree.
RECURSIVE triageTree(_, _, _)
triageTree(pbs, Checks, garbage) ==
    LET add(nextVC, rest, r) ==
            IF r.pair[1] # NullCtx
            THEN [rest EXCEPT !.loops = @ \cup {r.pair}, !.asserts = @ \cup r.asserts]
            ELSE [rest EXCEPT !.values = @ \cup {nextVC}, !.asserts = @ \cup r.asserts]
    IN  IF Checks = <<>> THEN [loops |-> {}, values |-> {}, asserts |-> {}]
        ELSE IF ~shouldCheckPBIn(pbs, Head(Checks)[2], Head(Checks)[1])
        THEN triageTree(pbs, Tail(Checks), garbage)
        ELSE add(Head(Checks), triageTree(pbs, Tail(Checks), garbage),
                 getOutermostLoopIn(Head(Checks)[2], Head(Checks)[1], garbage))

RECURSIVE seqOfSet(_)
seqOfSet(S) ==
    IF S = {} THEN <<>>
    ELSE LET m == CHOOSE x \in S : TRUE
         IN  <<m>> \o seqOfSet(S \ {m})

RECURSIVE flatten(_)
flatten(ss) == IF ss = <<>> THEN <<>> ELSE Head(ss) \o flatten(Tail(ss))

allValues == [k \in 1..Len(TreeProgram) |-> k]

\* queuePBUpdateIfUnresolved(V) in context Ctx; ts holds the facts, the
\* considered set and the queue.
queuePBUpdateIfUnresolvedIn(ts, VC) ==
    IF shouldCheckPBIn(ts.pointerBases, VC[1], VC[2])
    THEN [pointerBases |-> [ts.pointerBases EXCEPT ![VC[1]][VC[2]] = <<>>],
          considered |-> [ts.considered EXCEPT ![VC[1]][VC[2]] =
                              IF ts.pointerBases[VC[1]][VC[2]] # <<>>
                              THEN ts.pointerBases[VC[1]][VC[2]] ELSE <<NullPB>>],
          queue |-> Append(ts.queue, make_vc(VC[2], VC[1]))]
    ELSE ts

\* The (context, value) pairs queueUpdatePBWholeLoop(L) of context Ctx
\* passes to queuePBUpdateIfUnresolved, in order: the arguments and the
\* instructions of queuePBUpdateAllUnresolvedVCsInScope(L), then the inline
\* children, then the iterations of the peel children.
RECURSIVE wholeLoopVisits(_, _)
wholeLoopVisits(Ctx, L) ==
    LET here(vs) == [k \in 1..Len(vs) |-> <<Ctx, vs[k]>>]
        isArg(V) == V \in valuesOf(Ctx) /\ ~isInstruction(V)
        inScope(V) ==
            /\ V \in valuesOf(Ctx) /\ isInstruction(V) /\ ~blockIsDeadIn(Ctx, V)
            /\ (L = NoLoop \/ (TreeProgram[V].natural # NoLoop
                               /\ loopContains(L, TreeProgram[V].natural)))
        isChild(CI) ==
            /\ CI \in inlineChildrenT(ctxTree, Ctx)
            /\ (L = NoLoop \/ loopContains(L, TreeProgram[CI].natural))
        isPeeled(X) == containsOrNull(L, X) /\ getPeelStatus(Ctx, X) = "final"
        calls == SelectSeq(allValues, isChild)
        loops == SelectSeq([k \in 1..Len(LoopParents) |-> k], isPeeled)
        iterations(X) == [i \in 1..Len(TreeIterations) |-> wholeLoopVisits(IterOf(Ctx, X, i), X)]
    IN  (IF getLoopContext(Ctx) = NoLoop /\ L = NoLoop
         THEN here(SelectSeq(allValues, isArg)) ELSE <<>>)
        \o here(SelectSeq(allValues, inScope))
        \o flatten([k \in 1..Len(calls) |-> wholeLoopVisits(InlineOf(Ctx, calls[k]), NoLoop)])
        \o flatten([k \in 1..Len(loops) |-> flatten(iterations(loops[k]))])

RECURSIVE queueVisits(_, _, _)
queueVisits(ts, visits, k) ==
    IF k > Len(visits) THEN ts
    ELSE queueVisits(queuePBUpdateIfUnresolvedIn(ts, visits[k]), visits, k + 1)

queueUpdatePBWholeLoopIn(ts, Ctx, L) == queueVisits(ts, wholeLoopVisits(Ctx, L), 1)

NoTreeFacts == [Ctx \in TreeCtxs |-> [V \in 1..Len(TreeProgram) |-> <<>>]]

TreeShapes ==
    { T \in [peel : [TreeLoops -> PeelStatuses], inl : SUBSET {"root", "iter"}, dead : {{}},
             deadBlocks : {{}}, nullThis : BOOLEAN] :
          /\ T.peel[1] = "none" => T.peel[2] = "none" /\ "iter" \notin T.inl
          /\ T.inl = {} => T.peel[3] = "none"
          /\ T.nullThis => T.peel[3] = "final" }

FocusKinds ==
    {"none", "single", "singleAbove", "pair", "overdef", "resolved", "deadBlock", "deadCtx"}

\* One pending check <<V, Ctx>>; the kind says what the tree knows about it.
\* An argument is pended in the context of its inlined callee only
\* (queueUsersUpdatePBFalling).
InitTree ==
    /\ IdlePB
    /\ IdleMerge
    /\ prog = TreeProgram
    /\ addrDown = FALSE
    /\ inlineChildren = {}
    /\ \E T \in TreeShapes :
       \E Ctxs \in {subtreeT(T, TreeRoot)} :
       \E Ctx \in Ctxs, kind \in FocusKinds :
       \E V \in valuesOf(Ctx) :
           /\ kind = "singleAbove" => isPeelIteration(Ctx)
           /\ kind = "deadBlock" => TreeProgram[V].op # "Argument"
           /\ TreeProgram[V].op = "Argument" => Ctx # TreeRoot /\ ~isPeelIteration(Ctx)
           /\ ctxTree = [T EXCEPT !.dead = IF kind = "deadCtx" THEN {Ctx} ELSE {}]
           /\ lfa = NoAttempt
           /\ deadBlocks = IF kind = "deadBlock" THEN {<<Ctx, V>>} ELSE {}
           /\ pointerBases =
                  [C2 \in Ctxs |->
                       [V2 \in 1..Len(TreeProgram) |->
                            IF V2 # V THEN <<>>
                            ELSE IF C2 = Ctx /\ kind = "single" THEN <<scalarFact(<<1>>)>>
                            ELSE IF C2 = Ctx /\ kind = "pair" THEN <<scalarFact(<<1, 2>>)>>
                            ELSE IF C2 = Ctx /\ kind = "overdef" THEN <<getOverdef>>
                            ELSE IF kind = "singleAbove" /\ C2 = parentCtx(Ctx)
                            THEN <<scalarFact(<<1>>)>>
                            ELSE <<>>]]
           /\ improvedValues =
                  [C2 \in Ctxs |->
                       [V2 \in 1..Len(TreeProgram) |->
                            IF C2 = Ctx /\ V2 = V /\ kind = "resolved"
                            THEN <<const_vc(C(1))>> ELSE <<>>]]
           /\ pendingPBChecks1 = <<make_vc(V, Ctx)>>
    /\ PBsConsideredThisRun = NoTreeFacts
    /\ callBlockedPBLoads = <<>>
    /\ requeued = {}
    /\ baseline = <<>>
    /\ extraDead = 0
    /\ lastInval = NoInval
    /\ defOrClobberCache = <<>>
    /\ failedLFACache = <<>>
    /\ memWriterEffects = <<>>
    /\ CFGDependentPBLoads = {}
    /\ PBQueue1 = <<>>
    /\ PBQueue2 = <<>>
    /\ PBProduceQ = 1
    /\ pendingPBChecks2 = <<>>
    /\ producePendingPBChecks = 1
    /\ pc = "tree"
    /\ LoopsToCheck = <<>>
    /\ ValuesToCheck = <<>>
    /\ solverFinalise = FALSE
    /\ ConsumeQ = 2
    /\ sweep = <<>>
    /\ updatedVCs = <<>>
    /\ asserts = {}
    /\ seeds = {}
    /\ runs = 0
    /\ lastUpdate = NoUpdate
    /\ afterRun = <<>>
    /\ owed = {}

\* Step 1 of the driver's loop: the pending checks are triaged.
TreeTriage(garbage) ==
    /\ pc = "tree"
    /\ garbage # NoLoop => \E k \in 1..Len(pendingPBChecks1) : ~isInstruction(pendingPBChecks1[k][1])
    /\ \E r \in {triageTree(pointerBases, pendingPBChecks1, garbage)} :
           /\ LoopsToCheck' = seqOfSet(r.loops)
           /\ ValuesToCheck' = seqOfSet(r.values)
           /\ asserts' = asserts \cup r.asserts
    /\ pendingPBChecks1' = <<>>
    /\ producePendingPBChecks' = otherQ(producePendingPBChecks)
    /\ pc' = "treeTriaged"
    /\ UNCHANGED <<pbVars, mergeVars, progVars, clientVars, attemptVars, PBsConsideredThisRun,
                   PBQueue1, PBQueue2, PBProduceQ, pendingPBChecks2, solverFinalise,
                   ConsumeQ, sweep, updatedVCs, seeds, runs, lastUpdate, afterRun, owed,
                   requeued>>

\* The start of a loop group: PBsConsideredThisRun.clear() and
\* queueUpdatePBWholeLoop(L) in the context of the loop.
TreeLoopBegin ==
    /\ pc = "treeTriaged"
    /\ LoopsToCheck # <<>>
    /\ \E r \in {queueUpdatePBWholeLoopIn([pointerBases |-> pointerBases,
                                          considered |-> NoTreeFacts, queue |-> <<>>],
                                         Head(LoopsToCheck)[1], Head(LoopsToCheck)[2])} :
           /\ pointerBases' = r.pointerBases
           /\ PBsConsideredThisRun' = r.considered
           /\ PBQueue1' = PBQueue1 \o r.queue
    /\ pc' = "treeSolve"
    /\ UNCHANGED <<pbVars, mergeVars, progVars, clientVars, improvedValues, defOrClobberCache,
                   failedLFACache, memWriterEffects, CFGDependentPBLoads, callBlockedPBLoads,
                   PBQueue2, PBProduceQ, pendingPBChecks1, pendingPBChecks2,
                   producePendingPBChecks, LoopsToCheck, ValuesToCheck, solverFinalise,
                   ConsumeQ, sweep, updatedVCs, historyVars>>

NextTree ==
    \/ \E garbage \in GarbageLoops : TreeTriage(garbage)
    \/ TreeLoopBegin

SpecTree == InitTree /\ [][NextTree]_vars
(***************************************************************************)
(* C25: which values shouldCheckPB lets through.                           *)
(***************************************************************************)
prefixCtx(Ctx, k) == SubSeq(Ctx, 1, k)

\* V's scope is not within the loop of Ctx.
scopeOutsideContext(Ctx, V) ==
    /\ getLoopContext(Ctx) # NoLoop
    /\ ~loopContains(getLoopContext(Ctx), getValueScope(V))

\* V lies under a loop directly inside the loop of Ctx whose peel attempt
\* ended in a Final iteration.
underTerminatedLoop(Ctx, V) ==
    \E X \in TreeLoops :
        /\ getParentLoop(X) = getLoopContext(Ctx)
        /\ getValueScope(V) # NoLoop
        /\ loopContains(X, getValueScope(V))
        /\ getPeelStatus(Ctx, X) = "final"

\* The fact of V visible from Ctx (its own, or the nearest one of the
\* contexts its iterations are nested in) has exactly one value.
visibleFactIsSingle(Ctx, V) ==
    \E k \in 0..Len(Ctx) :
        /\ pointerBases[prefixCtx(Ctx, k)][V] # <<>>
        /\ Len(pointerBases[prefixCtx(Ctx, k)][V][1].Values) = 1
        /\ \A j \in (k + 1)..Len(Ctx) :
               Ctx[j][1] = "iter" /\ pointerBases[prefixCtx(Ctx, j)][V] = <<>>

excludedFromCheck(Ctx, V) ==
    \/ contextIsDead(Ctx)
    \/ hasResolvedPBIn(Ctx, V)
    \/ blockIsDeadIn(Ctx, V)
    \/ scopeOutsideContext(Ctx, V)
    \/ underTerminatedLoop(Ctx, V)
    \/ visibleFactIsSingle(Ctx, V)

inQueue(q, VC) == \E k \in 1..Len(q) : q[k] = VC

\* A value shouldCheckPB refuses is dropped by the triage and is neither
\* snapshotted, erased nor queued at the start of a loop group.
refusedIsUntouched ==
    \A Ctx \in TreeCtxs : \A V \in valuesOf(Ctx) :
        ~shouldCheckPBIn(pointerBases, Ctx, V) =>
            /\ pointerBases'[Ctx][V] = pointerBases[Ctx][V]
            /\ PBsConsideredThisRun'[Ctx][V] = PBsConsideredThisRun[Ctx][V]
            /\ inQueue(PBQueue1', make_vc(V, Ctx)) => inQueue(PBQueue1, make_vc(V, Ctx))
            /\ inQueue(pendingPBChecks1, make_vc(V, Ctx)) =>
                   ~inQueue(ValuesToCheck', make_vc(V, Ctx))

\* C25: shouldCheckPB(V) in context Ctx is false exactly when Ctx is dead,
\* V is resolved, V's block is dead, V's scope is not within the loop of
\* Ctx, V lies under a child loop whose peel attempt ended Final, or V's
\* visible fact has exactly one value (so it is true for an overdefined
\* fact); a refused value is not snapshotted, erased or queued.
C25_ShouldCheckPB ==
    /\ [](\A Ctx \in TreeCtxs : \A V \in valuesOf(Ctx) :
              shouldCheckPBIn(pointerBases, Ctx, V) <=> ~excludedFromCheck(Ctx, V))
    /\ [][refusedIsUntouched]_vars

\* A pending value under a terminated loop, with nothing else against it,
\* was dropped by the triage; and a value with an overdefined fact was kept.
C25_Witness ==
    /\ pc = "treeTriaged"
    /\ LoopsToCheck = <<>>
    /\ ValuesToCheck = <<>>
    /\ \E Ctx \in TreeCtxs : \E V \in valuesOf(Ctx) :
           /\ underTerminatedLoop(Ctx, V)
           /\ ~contextIsDead(Ctx) /\ ~hasResolvedPBIn(Ctx, V) /\ ~blockIsDeadIn(Ctx, V)
           /\ ~scopeOutsideContext(Ctx, V)
           /\ pointerBases[Ctx][V] = <<getOverdef>>
(***************************************************************************)
(* C26: the triage of a pending check by its outermost unbound loop.       *)
(***************************************************************************)
\* The loops from the one directly inside MyL down to N, outermost first.
RECURSIVE loopsDownTo(_, _)
loopsDownTo(MyL, N) ==
    IF N = MyL \/ N = NoLoop THEN <<>>
    ELSE Append(loopsDownTo(MyL, getParentLoop(N)), N)

loopsSeenFrom(Ctx, N) ==
    [k \in 1..Len(loopsDownTo(getLoopContext(Ctx), N)) |->
         <<Ctx, loopsDownTo(getLoopContext(Ctx), N)[k]>>]

\* The loops that enclose the context Ctx, outermost first, each with the
\* context it is a loop of: the loop of an iteration, and the loops around
\* the call of an inlined callee.
RECURSIVE loopsAround(_)
loopsAround(Ctx) ==
    IF Ctx = TreeRoot THEN <<>>
    ELSE IF isPeelIteration(Ctx)
    THEN Append(loopsAround(parentCtx(Ctx)), <<parentCtx(Ctx), getLoopContext(Ctx)>>)
    ELSE loopsAround(parentCtx(Ctx))
         \o loopsSeenFrom(parentCtx(Ctx), TreeProgram[Ctx[Len(Ctx)][2]].natural)

enclosingLoops(Ctx, V) == loopsAround(Ctx) \o loopsSeenFrom(Ctx, TreeProgram[V].natural)

\* A loop of a context is unbound when the context has no peel attempt for
\* it or the last iteration of the attempt is not Final.
isUnbound(CL) == getPeelStatus(CL[1], CL[2]) # "final"

unboundLoops(Ctx, V) == SelectSeq(enclosingLoops(Ctx, V), isUnbound)

triagedAsClaimed ==
    pc = "tree" /\ pc' = "treeTriaged" =>
        \A k \in 1..Len(pendingPBChecks1) :
            \A V \in {pendingPBChecks1[k][1]}, Ctx \in {pendingPBChecks1[k][2]} :
                shouldCheckPBIn(pointerBases, Ctx, V) =>
                    /\ asserts' = asserts
                    /\ IF unboundLoops(Ctx, V) # <<>>
                       THEN /\ inQueue(LoopsToCheck', Head(unboundLoops(Ctx, V)))
                            /\ ~inQueue(ValuesToCheck', pendingPBChecks1[k])
                       ELSE /\ inQueue(ValuesToCheck', pendingPBChecks1[k])
                            /\ LoopsToCheck' = <<>>

\* C26: a pending (value, context) that passes shouldCheckPB is put in the
\* group of the outermost loop, over the whole chain of ancestor contexts,
\* whose peel attempt is absent or not Final, and is a loop-free singleton
\* only if no enclosing loop of the chain is unbound.
C26_TriageByOutermostUnboundLoop == [][triagedAsClaimed]_vars
(***************************************************************************)
(* C24: what a loop group queues before its values are evaluated.          *)
(***************************************************************************)
\* The step from context prefixCtx(D, k - 1) to prefixCtx(D, k) stays in
\* the group of loop L of context prefixCtx(D, n): an inlined callee (at a
\* call inside L when the call is in the context of the group), or an
\* iteration of a fully peeled loop (inside L likewise).
stepInGroup(D, n, L, k) ==
    LET P == prefixCtx(D, k - 1)
        X == D[k][2]
    IN  IF D[k][1] = "call"
        THEN k = n + 1 => loopContains(L, TreeProgram[X].natural)
        ELSE /\ getPeelStatus(P, X) = "final"
             /\ k = n + 1 => loopContains(L, X)

\* The values of context D that belong to the group of loop L of context
\* C0: those of C0 in the blocks of L, every value of an inlined callee, and
\* those of an iteration in the blocks of its loop.
inGroupOf(C0, L, D, V) ==
    /\ Len(D) >= Len(C0)
    /\ prefixCtx(D, Len(C0)) = C0
    /\ \A k \in (Len(C0) + 1)..Len(D) : stepInGroup(D, Len(C0), L, k)
    /\ V \in valuesOf(D)
    /\ IF D = C0 THEN isInstruction(V) /\ loopContains(L, TreeProgram[V].natural)
       ELSE IF isPeelIteration(D)
       THEN isInstruction(V) /\ loopContains(getLoopContext(D), TreeProgram[V].natural)
       ELSE TRUE

groupIsQueuedFirst ==
    pc = "treeTriaged" /\ pc' = "treeSolve" =>
        \A D \in TreeCtxs : \A V \in valuesOf(D) :
            (/\ inGroupOf(Head(LoopsToCheck)[1], Head(LoopsToCheck)[2], D, V)
             /\ shouldCheckPBIn(pointerBases, D, V))
            => /\ PBsConsideredThisRun'[D][V] =
                      (IF pointerBases[D][V] # <<>> THEN pointerBases[D][V] ELSE <<NullPB>>)
               /\ pointerBases'[D][V] = <<>>
               /\ inQueue(PBQueue1', make_vc(V, D))

\* C24: at the start of the group of loop L of context C0, before any
\* evaluation, every checkable value within L (those of inlined callees at
\* call sites inside L and of fully peeled child loops included,
\* transitively) has its old fact in the considered set, its fact erased
\* and itself in the queue.
C24_GroupQueuedBeforeEvaluation == [][groupIsQueuedFirst]_vars
(***************************************************************************)
(* SpecDefn: one call of LoadForwardAttempt::addPBDefn.  lfa is the        *)
(* attempt, fact the definition's pointer base.                            *)
(***************************************************************************)
\* The attempt's aggregate: nothing yet, overdefined, 1..PBMAX scalars, one
\* or two pointers.
AttemptFacts ==
    {NullPB, getOverdef, pointerFact(<<GlobalG>>), pointerFact(<<GlobalG, GlobalH>>)}
    \cup { scalarFact([k \in 1..n |-> k]) : n \in 1..PBMAX }

\* The definition's pointer base: overdefined, scalars the aggregate may or
\* may not hold already, pointers.
DefnFacts ==
    { getOverdef, scalarFact(<<1>>), scalarFact(<<1, 2>>), scalarFact(<<PBMAX>>),
      scalarFact(<<PBMAX + 1>>), scalarFact(<<PBMAX, PBMAX + 1>>),
      scalarFact(<<PBMAX + 1, PBMAX + 2>>), pointerFact(<<GlobalG>>),
      pointerFact(<<GlobalH, GlobalK>>) }

InitDefn ==
    /\ fact \in DefnFacts
    /\ held = {}
    /\ lastOp = NoOp
    /\ nops = 0
    /\ IdleMerge
    /\ prog = <<>>
    /\ addrDown = FALSE
    /\ deadBlocks = {}
    /\ inlineChildren = {}
    /\ ctxTree = NoTree
    /\ \E PB \in AttemptFacts, fin \in BOOLEAN :
           lfa = [LoadForwardAttempt(fin) EXCEPT !.PB = PB]
    /\ callBlockedPBLoads = <<>>
    /\ requeued = {}
    /\ baseline = <<>>
    /\ extraDead = 0
    /\ lastInval = NoInval
    /\ pointerBases = <<>>
    /\ improvedValues = <<>>
    /\ defOrClobberCache = <<>>
    /\ failedLFACache = <<>>
    /\ memWriterEffects = <<>>
    /\ CFGDependentPBLoads = {}
    /\ PBsConsideredThisRun = <<>>
    /\ PBQueue1 = <<>>
    /\ PBQueue2 = <<>>
    /\ PBProduceQ = 1
    /\ pendingPBChecks1 = <<>>
    /\ pendingPBChecks2 = <<>>
    /\ producePendingPBChecks = 1
    /\ pc = "defn"
    /\ LoopsToCheck = <<>>
    /\ ValuesToCheck = <<>>
    /\ solverFinalise = FALSE
    /\ ConsumeQ = 2
    /\ sweep = <<>>
    /\ updatedVCs = <<>>
    /\ asserts = {}
    /\ seeds = {}
    /\ runs = 0
    /\ lastUpdate = NoUpdate
    /\ afterRun = <<>>
    /\ owed = {}

\* Attempt.addPBDefn(NewPB); lastOp keeps the aggregate before the call.
AddDefn ==
    /\ pc = "defn"
    /\ lfa' = addPBDefn(lfa, fact)
    /\ lastOp' = [kind |-> "addPBDefn", pre |-> lfa.PB, arg |-> fact, vc |-> <<0, 0, 0, 0>>]
    /\ pc' = "done"
    /\ UNCHANGED <<fact, held, nops, mergeVars, prog, addrDown, deadBlocks, inlineChildren,
                   ctxTree, attemptVars, queueVars, LoopsToCheck, ValuesToCheck,
                   solverFinalise, ConsumeQ, sweep, updatedVCs, historyVars, clientVars>>

SpecDefn == InitDefn /\ [][AddDefn]_vars

(***************************************************************************)
(* C27: the reason recorded when a definition makes the attempt            *)
(* overdefined.                                                            *)
(***************************************************************************)
afterAddDefn == pc = "done" /\ lastOp.kind = "addPBDefn"

\* The call turned the aggregate from not overdefined to overdefined.
turnedOverdef == afterAddDefn /\ ~lastOp.pre.Overdef /\ lfa.PB.Overdef

\* The definition is of the other type than the aggregate.
typeMix == isInitialised(lastOp.pre) /\ lastOp.arg.Type # lastOp.pre.Type

\* C27 as stated: the reason is "Fan-in" for a type mix and "Too many
\* candidates" for more than PBMAX values; an overdefined definition
\* records none.
C27_OverdefReasons ==
    afterAddDefn =>
        lfa.OverdefReasons =
            IF turnedOverdef /\ ~lastOp.arg.Overdef
            THEN IF typeMix THEN <<"Fan-in">> ELSE <<"Too many candidates">>
            ELSE <<>>

\* C27, amended: when a definition that is not itself overdefined turns
\* the attempt's aggregate from not overdefined to overdefined, the reason
\* recorded is "Fan-in", whether the cause is a type mix or more than PBMAX
\* values; an overdefined definition, and a call that leaves the aggregate
\* not overdefined, record nothing.
C27_OverdefReasonFanIn ==
    afterAddDefn =>
        lfa.OverdefReasons =
            IF turnedOverdef /\ ~lastOp.arg.Overdef THEN <<"Fan-in">> ELSE <<>>

\* PBMAX values and one more: the cap made the aggregate overdefined.
C27_Witness ==
    /\ turnedOverdef
    /\ ~typeMix
    /\ ~lastOp.arg.Overdef
    /\ Len(lastOp.pre.Values) = PBMAX
    /\ lfa.OverdefReasons = <<"Fan-in">>
(***************************************************************************)
(* C28: the frame of one call of updateBasePointer (checked under Spec for *)
(* the call the driver is about to make).                                  *)
(***************************************************************************)
\* The loads registered against the stores that use V.
loadsAfterStoresOf(s, V) ==
    { LC[1] : LC \in UNION { s.memWriterEffects[S] :
                                 S \in { U \in Users(V) : getOpcode(U) = "Store" } } }

\* The call leaves the facts of the other values alone; the fact it writes
\* for V is the one computed from the facts as they were before the call
\* (V is not evaluated a second time, even when V is among its own users);
\* the dependents are appended to the queue being produced, with their
\* facts as they were, and nothing is pended.
singleWrite(s, V, fin) ==
    \A r \in {updateBasePointer(s, V, fin)} :
        /\ \A W \in Values \ {V} : r.s.pointerBases[W] = s.pointerBases[W]
        /\ r.s.pointerBases[V] # s.pointerBases[V] =>
               /\ r.s.pointerBases[V] # <<>>
               /\ \A n \in {computeNewPB(s, V, fin)} :
                      n.ret /\ PBEq(r.s.pointerBases[V][1], n.pb)
        /\ r.s.PBsConsideredThisRun = s.PBsConsideredThisRun
        /\ r.s.pended = <<>>
        /\ \A k \in 1..Len(r.s.produced) :
               /\ r.s.produced[k][1] \in Users(V) \cup loadsAfterStoresOf(r.s, V)
               /\ r.s.produced[k][1] # V =>
                      r.s.pointerBases[r.s.produced[k][1]] = s.pointerBases[r.s.produced[k][1]]

\* C28: one call of updateBasePointer(V) writes at most the entry
\* pointerBases[V] of its context, once, from inputs it only reads, and
\* evaluates no other value and not V again: its dependents are only
\* appended to the queue.
C28_SingleWriteNoReentry == \A c \in updateCalls : singleWrite(c[1], c[2], c[3])

\* The call the driver is about to make stores a fact for V and queues a
\* dependent that has a fact of its own, which the call leaves as it was.
C28_Witness ==
    \E c \in updateCalls : \E r \in {updateBasePointer(c[1], c[2], c[3])} :
        /\ r.ret
        /\ \E k \in 1..Len(r.s.produced) :
               /\ r.s.produced[k][1] # c[2]
               /\ c[1].pointerBases[r.s.produced[k][1]] # <<>>
(***************************************************************************)
(* C29: termination of the driver.                                         *)
(***************************************************************************)
\* runPointerBaseSolver() is sequential code: from its entry to its return
\* its next step is taken.  Every step of the driver outside a call of
\* runPointerBaseSolver(finalise, ...) changes pc, and the fairness is stated
\* on that part of the steps; the steps of the calls are those of
\* PhaseStepCtl.  The client's steps (queueing values, running the driver
\* again) are not steps of the driver and are under no obligation.
DriverStepCtl ==
    \/ pc = "outer" /\ ~pendingEmpty /\ pc' = "values"
    \/ pc = "outer" /\ pendingEmpty /\ pc' = "done"
    \/ pc = "values" /\ ValuesToCheck # <<>> /\ pc' = "valuePessimistic"
    \/ pc = "valuePessimistic" /\ pc' = "valueDone"
    \/ pc = "valueDone" /\ pc' = "values"
    \/ pc = "values" /\ ValuesToCheck = <<>> /\ pc' = "loops"
    \/ pc = "loops" /\ LoopsToCheck # <<>> /\ pc' = "solve"
    \/ pc = "loops" /\ LoopsToCheck = <<>> /\ pc' = "outer"

FairDriverSpec ==
    Init /\ [][Next]_vars /\ WF_phaseCtl(PhaseStepCtl) /\ WF_pc(DriverStepCtl)

inDriver == pc \notin {"idle", "done"}

\* C29: a run of runPointerBaseSolver() that has started reaches the head of
\* its outer loop with pendingPBChecks1 and pendingPBChecks2 both empty and
\* returns; it returns from no other state.
C29_DriverTerminates ==
    /\ inDriver ~> (pc = "outer" /\ pendingEmpty)
    /\ inDriver ~> (pc = "done")
    /\ [][pc # "done" /\ pc' = "done" => pc = "outer" /\ pendingEmpty]_vars

\* The driver has returned from a run in which queueNewPBWork pended
\* values again: the outer loop went round more than once.
C29_Witness ==
    /\ pc = "done"
    /\ pendingEmpty
    /\ producePendingPBChecks = 1
    /\ runs = 1
    /\ lastUpdate.V # 0

(***************************************************************************)
(* SpecVague: the solver over the program extended by two loads whose      *)
(* pointer has no symbolic expression, one in loop 1 and one in no loop.   *)
(*   21  u  = load (PHI 4)             in loop 1                           *)
(*   22  v  = load (PHI 2)             in no loop, pended as a user of 2   *)
(***************************************************************************)
VagueLoopLoad == 21

VagueLoad == 22

VagueProgram(X, P) ==
    Program(X, P) \o << LoadInst(4, 1, <<6, 3>>, FALSE), LoadInst(2, NoLoop, <<3>>, FALSE) >>

VaguePrograms == { VagueProgram(X, P) : X \in {C(2), 1, C(1)}, P \in {GlobalH, GlobalG} }

InitVague == InitProgram(VaguePrograms, {})

SpecVague == InitVague /\ [][Next]_vars

(***************************************************************************)
(* C30.  No load is forwarded for the first time in the pessimistic phase. *)
(***************************************************************************)
hasLFACache(s, LI) == s.defOrClobberCache[LI] # <<>> \/ s.failedLFACache[LI] # <<>>

\* The call of updateBasePointer the driver is about to make enters
\* tryForwardLoadPB(V, true).
entersPessimisticLFA(c) ==
    /\ c[3]
    /\ getOpcode(c[2]) = "Load"
    /\ ~quickEscape(c[1], c[2], TRUE)

\* C30: whenever tryForwardLoadPB(L, true) is entered, for a load of a loop
\* group or for a loop-free load evaluated by updateBasePointer(L, false)
\* and then updateBasePointer(L, true), L has an entry in defOrClobberCache
\* or in failedLFACache, and the assertion of the path without a cache
\* entry never fails; this includes the loads whose optimistic attempt was
\* not completely explored and cached nothing.
C30_NoFirstForwardInPessimisticPhase ==
    /\ "Instruction considered for the first time in pessimistic phase?" \notin asserts
    /\ \A c \in updateCalls : entersPessimisticLFA(c) => hasLFACache(c[1], c[2])

\* The pessimistic sweep of the group of loop 1 is about to evaluate the
\* load 21, whose optimistic attempt was not completely explored and cached
\* nothing, and the loop-free load 22 has been through both of its calls in
\* the same way.
C30_Witness ==
    /\ pc = "sweep"
    /\ solverFinalise
    /\ sweep # <<>>
    /\ Head(sweep)[1] = VagueLoopLoad
    /\ ~hasLFACache(SolverState, VagueLoopLoad)
    /\ pointerBases[VagueLoopLoad] # <<>>
    /\ pointerBases[VagueLoopLoad][1].Overdef
    /\ ~hasLFACache(SolverState, VagueLoad)
    /\ pointerBases[VagueLoad] # <<>>
    /\ pointerBases[VagueLoad][1].Overdef
    /\ \E LI \in Values : getOpcode(LI) = "Load" /\ hasLFACache(SolverState, LI)

(***************************************************************************)
(* C31.  A run makes no fact worse than its snapshot.                      *)
(***************************************************************************)
\* The driver's next step is queueNewPBWork: after the two calls for a
\* loop-free value, or at the return of the pessimistic phase of a group.
newPBWorkDue == pc = "valueDone" \/ (pc = "solve" /\ solverDone /\ solverFinalise)

\* The considered values with a non-empty snapshot and a local fact now.
comparedValues ==
    { V \in Values : /\ PBsConsideredThisRun[V] # <<>>
                     /\ ~PBEq(PBsConsideredThisRun[V][1], NullPB)
                     /\ getPointerBaseLocal(SolverState, V) # <<>> }

noWorseThan(New, Snapshot) ==
    /\ New.Overdef => Snapshot.Overdef
    /\ ~New.Overdef /\ ~Snapshot.Overdef => Len(New.Values) <= Len(Snapshot.Values)

isConsidered(VC) == VC[2] = RootCtx /\ PBsConsideredThisRun[VC[1]] # <<>>

\* Everything on the two queues and in the sweep is a key of
\* PBsConsideredThisRun.
queuedAreConsidered ==
    /\ \A k \in 1..Len(PBQueue1) : isConsidered(PBQueue1[k])
    /\ \A k \in 1..Len(PBQueue2) : isConsidered(PBQueue2[k])
    /\ \A k \in 1..Len(sweep) : isConsidered(sweep[k])

\* A step of a phase changes the fact of a considered value only.
phaseWritesGroupOnly ==
    pc = "sweep" /\ sweep # <<>> =>
        \A V \in Values : pointerBases'[V] # pointerBases[V] => PBsConsideredThisRun[V] # <<>>

\* C32: every pair that runPointerBaseSolver(finalise, ...) takes from the
\* queue it consumes is a key of PBsConsideredThisRun at that moment, in
\* every singleton and loop-group run of the driver (PBsConsideredThisRun
\* is cleared between them), the assertion never fails, and a phase writes
\* facts only for the values of the current group.
C32_OnlyConsideredEvaluated ==
    /\ [](queuedAreConsidered /\ "PBsConsideredThisRun.count(*it)" \notin asserts)
    /\ [][phaseWritesGroupOnly]_vars

\* A phase is about to evaluate a value of its group and to store a fact
\* for it, after the run of another group whose last value is no longer
\* considered.
C32_Witness ==
    /\ pc = "sweep"
    /\ sweep # <<>>
    /\ isConsidered(Head(sweep))
    /\ lastUpdate.V # 0
    /\ PBsConsideredThisRun[lastUpdate.V] = <<>>
    /\ updateBasePointer(SolverState, Head(sweep)[1], solverFinalise).ret

(***************************************************************************)
(* C33.  The pessimistic phase neither creates nor improves a fact.        *)
(***************************************************************************)
noFactOrOverdef(s, V) ==
    \A Old \in {getPointerBaseFalling(s, V)} : Old = <<>> \/ Old[1].Overdef

\* updateBasePointer(V, true) on a value without a visible fact, or with an
\* overdefined one, returns false and leaves the state as it found it.
pessimisticCallIsInert(s, V) ==
    \A r \in {updateBasePointer(s, V, TRUE)} : ~r.ret /\ r.s = s

\* A step of the pessimistic phase (of a group or of a loop-free value).
pessimisticStep ==
    \/ pc = "valuePessimistic"
    \/ pc = "sweep" /\ sweep # <<>> /\ solverFinalise

factStaysAbsentOrOverdef ==
    pessimisticStep =>
        \A V \in Values :
            /\ pointerBases[V] = <<>> => pointerBases'[V] = <<>>
            /\ pointerBases[V] # <<>> /\ pointerBases[V][1].Overdef =>
                   pointerBases'[V] = pointerBases[V]

\* C33: updateBasePointer(V, true) returns false and changes nothing when V
\* has no visible fact or an overdefined one; no step of the pessimistic
\* phase gives a fact to a value that had none, and an overdefined fact
\* stays overdefined.
C33_PessimisticNeverImproves ==
    /\ [](\A c \in updateCalls :
              c[3] /\ noFactOrOverdef(c[1], c[2]) => pessimisticCallIsInert(c[1], c[2]))
    /\ [][factStaysAbsentOrOverdef]_vars

\* The pessimistic call is about to be made for a value that has no fact
\* and for which a fact would be computed now.
C33_Witness ==
    \E c \in updateCalls :
        /\ c[3]
        /\ getPointerBaseFalling(c[1], c[2]) = <<>>
        /\ getOpcode(c[2]) # "Load"
        /\ computeNewPB(c[1], c[2], TRUE).ret

(***************************************************************************)
(* C34.  The seeding of the pessimistic phase of a loop group.             *)
(***************************************************************************)
\* What a phase has still to evaluate: during a sweep the rest of the sweep
\* and what was produced, between sweeps the two queues.
queuedVCs ==
    IF pc = "sweep"
    THEN Range(sweep) \cup Range(IF PBProduceQ = 1 THEN PBQueue1 ELSE PBQueue2)
    ELSE Range(PBQueue1) \cup Range(PBQueue2)

\* The values of the group that have a fact: those for which
\* updateBasePointer returned true in the optimistic phase, every fact of
\* the group having been erased when the group was queued.
updatedInOptimisticPhase ==
    { make_vc(V, RootCtx) :
          V \in { U \in Values : PBsConsideredThisRun[U] # <<>> /\ pointerBases[U] # <<>> } }

\* The optimistic phase returns: the queue that is produced into holds
\* exactly those values, each once, and the other queue is empty.
seededWithUpdated ==
    pc = "solve" /\ solverDone /\ ~solverFinalise =>
        /\ Range(IF PBProduceQ = 1 THEN PBQueue1' ELSE PBQueue2') = updatedInOptimisticPhase
        /\ Len(IF PBProduceQ = 1 THEN PBQueue1' ELSE PBQueue2')
               = Cardinality(updatedInOptimisticPhase)
        /\ (IF PBProduceQ = 1 THEN PBQueue2' ELSE PBQueue1') = <<>>
        /\ Range(updatedVCs) = updatedInOptimisticPhase

\* In the pessimistic phase a queued value leaves the queues only by being
\* evaluated with finalise = true.
queuedIsEvaluated ==
    pc \in {"solve", "sweep"} /\ solverFinalise =>
        \A VC \in queuedVCs :
            \/ VC \in queuedVCs'
            \/ pc = "sweep" /\ sweep # <<>> /\ VC = Head(sweep)

\* The pessimistic phase is over: evaluating any value of the group again
\* with finalise = true changes nothing.
pessimisticFixpoint ==
    pc = "solve" /\ solverDone /\ solverFinalise =>
        \A V \in Values :
            PBsConsideredThisRun[V] # <<>> => ~updateBasePointer(SolverState, V, TRUE).ret

\* C34: the pessimistic phase of a loop group starts with exactly the
\* values for which updateBasePointer returned true in the optimistic
\* phase, each queued once; each of them is evaluated with finalise = true
\* before the phase ends, and when it ends no fact of the group is one that
\* only the optimistic rules give.
C34_PessimisticSeeding ==
    /\ [][seededWithUpdated]_vars
    /\ [][queuedIsEvaluated]_vars
    /\ []pessimisticFixpoint

\* An operand of V that is not a constant and has no fact or an
\* overdefined one.
weakInput(V) ==
    \E k \in 1..Len(prog[V].ops) :
        /\ prog[V].ops[k] \in Values
        /\ noFactOrOverdef(SolverState, prog[V].ops[k])

\* The pessimistic phase is about to evaluate a value that got its fact
\* from the optimistic rules over an input without a fact or with an
\* overdefined one, and makes it overdefined.
C34_Witness ==
    /\ pc = "sweep"
    /\ solverFinalise
    /\ sweep # <<>>
    /\ weakInput(Head(sweep)[1])
    /\ ~noFactOrOverdef(SolverState, Head(sweep)[1])
    /\ \E r \in {updateBasePointer(SolverState, Head(sweep)[1], TRUE)} :
           r.ret /\ r.NewPB.Overdef

(***************************************************************************)
(* C35.  queueNewPBWork fans out improvements only.                        *)
(***************************************************************************)
\* The considered values for which queuePendingWorkFromUpdatedPB is called:
\* a local fact that is not overdefined, and an empty snapshot or one that
\* differs from the fact.
fannedOut ==
    { V \in Values :
          /\ PBsConsideredThisRun[V] # <<>>
          /\ pointerBases[V] # <<>>
          /\ ~pointerBases[V][1].Overdef
          /\ \/ PBEq(PBsConsideredThisRun[V][1], NullPB)
             \/ ~PBEq(pointerBases[V][1], PBsConsideredThisRun[V][1]) }

\* The work of the users of V that are outside the group.
outOfGroupWork(V) ==
    { VC \in UNION { userWork(SolverState, U) : U \in Users(V) } : ~inGroup(SolverState, VC) }

\* What the call gives to the constant folder: the single scalar of a
\* value of the context's own scope.
replacedBy(V) ==
    IF pointerBases[V][1].Type = "Scalar" /\ Len(pointerBases[V][1].Values) = 1
       /\ getValueScope(V) = NoLoop
    THEN <<pointerBases[V][1].Values[1]>>
    ELSE improvedValues[V]

fansOutImprovements(r) ==
    /\ Range(r.pended) = UNION { outOfGroupWork(V) : V \in fannedOut }
    /\ r.produced = <<>>
    /\ r.pointerBases = pointerBases
    /\ \A V \in Values :
           r.improvedValues[V] = IF V \in fannedOut THEN replacedBy(V) ELSE improvedValues[V]

\* C35: queueNewPBWork calls queuePendingWorkFromUpdatedPB for a considered
\* value exactly when the value has a local fact that is not overdefined
\* and the snapshot was empty or differs from the fact: the users pended
\* are the out-of-group users of those values and no others, so that a
\* value whose new fact is overdefined, or which has no fact, pends none.
C35_FanOutOnlyImprovements ==
    newPBWorkDue => fansOutImprovements(queueNewPBWork(SolverState))

\* queueNewPBWork is about to run over a group with a value whose new fact
\* is overdefined and which has a user outside the group, and pends
\* nothing for it; an earlier call in the same pass of the driver has
\* pended the users of an improved value.
C35_Witness ==
    /\ newPBWorkDue
    /\ \E V \in Values :
           /\ PBsConsideredThisRun[V] # <<>>
           /\ pointerBases[V] # <<>>
           /\ pointerBases[V][1].Overdef
           /\ outOfGroupWork(V) # {}
           /\ ~(outOfGroupWork(V) \subseteq Range(queueNewPBWork(SolverState).pended))
    /\ ~pendingEmpty

(***************************************************************************)
(* C36.  The two caches of a load, and when tryForwardLoadPB writes them.  *)
(***************************************************************************)
\* The call of updateBasePointer the driver is about to make reaches
\* tryForwardLoadPB.
callsForwardLoad(c) == getOpcode(c[2]) = "Load" /\ ~quickEscape(c[1], c[2], c[3])

cachesOf(s) == <<s.defOrClobberCache, s.failedLFACache>>

\* memWriterEffects, callBlockedPBLoads and CFGDependentPBLoads.
reverseEdgesOf(s) == <<s.memWriterEffects, s.callBlockedPBLoads, s.CFGDependentPBLoads>>

atMostOneCache ==
    \A LI \in Loads : defOrClobberCache[LI] = <<>> \/ failedLFACache[LI] = <<>>

\* What tryForwardLoadPB(LI, fin) leaves in the caches, against the attempt
\* tryResolveLoad makes from the same state.
cachedWhenComplete(s, LI, fin, after) ==
    /\ \A L \in Loads \ {LI} :
           /\ after.defOrClobberCache[L] = s.defOrClobberCache[L]
           /\ after.failedLFACache[L] = s.failedLFACache[L]
    /\ IF hasLFACache(s, LI)
       THEN cachesOf(after) = cachesOf(s) /\ reverseEdgesOf(after) = reverseEdgesOf(s)
       ELSE \A walked \in {tryResolveLoad(s, LI, LoadForwardAttempt(fin))} :
                IF ~walked.CompletelyExplored
                THEN cachesOf(after) = cachesOf(s) /\ reverseEdgesOf(after) = reverseEdgesOf(s)
                ELSE IF walked.ReachedTop
                THEN /\ after.failedLFACache[LI] = <<walked.ReachedTopStr>>
                     /\ after.defOrClobberCache[LI] = <<>>
                     /\ reverseEdgesOf(after) = reverseEdgesOf(s)
                ELSE /\ after.defOrClobberCache[LI] # <<>>
                     /\ after.failedLFACache[LI] = <<>>

\* C36: in every reachable state no load has an entry in both
\* defOrClobberCache and failedLFACache; and a call of tryForwardLoadPB
\* writes a cache entry only for its own load, only when the load had none,
\* and only when the attempt was completely explored: a failedLFACache
\* entry if the attempt reached the top, a defOrClobberCache entry
\* otherwise; an attempt that was not completely explored writes no entry
\* and leaves memWriterEffects, callBlockedPBLoads and CFGDependentPBLoads
\* as they were.
C36_CacheExclusiveAndGated ==
    /\ atMostOneCache
    /\ \A c \in updateCalls :
           callsForwardLoad(c) =>
               \A r \in {tryForwardLoadPB(c[1], c[2], c[3])} :
                   cachedWhenComplete(c[1], c[2], c[3], r.s)

\* The optimistic sweep of the group of loop 1 is about to evaluate the
\* load 21, which has no cache entry and whose attempt is not completely
\* explored, while one load has a defOrClobberCache entry and another a
\* failedLFACache entry.
C36_Witness ==
    /\ pc = "sweep"
    /\ ~solverFinalise
    /\ sweep # <<>>
    /\ Head(sweep)[1] = VagueLoopLoad
    /\ callsForwardLoad(<<SolverState, VagueLoopLoad, FALSE>>)
    /\ ~hasLFACache(SolverState, VagueLoopLoad)
    /\ ~tryResolveLoad(SolverState, VagueLoopLoad, LoadForwardAttempt(FALSE)).CompletelyExplored
    /\ \E LI \in Loads : defOrClobberCache[LI] # <<>>
    /\ \E LI \in Loads : failedLFACache[LI] # <<>>

(***************************************************************************)
(* SpecScope: one call of addStartOfScopePB.  lastOp holds the global, the *)
(* window and the result of extractAggregateMemberAt; lfa is the attempt.  *)
(***************************************************************************)
\* Offsets about the two ends of the initializer, and the extremes.
SymExprOffsets == { int64(n) : n \in -9..17 } \cup {INT64_MIN, INT64_MAX}

InitializerSizes == {0, 4, 8, 16}

LoadSizes == {1, 4, 8}

\* extractAggregateMemberAt is not part of the sources at hand: it may find
\* a constant at the offset or none.
FieldVCs == {VCNull, const_vc(C(7))}

InitScope ==
    /\ fact = NullPB
    /\ held = {}
    /\ \E GV \in {GlobalG, GlobalK}, S \in InitializerSizes, O \in SymExprOffsets,
          L \in LoadSizes, F \in FieldVCs :
           lastOp = [kind |-> "addStartOfScopePB", GV |-> GV, W |-> Window(S, O, L),
                     FieldVC |-> F]
    /\ nops = 0
    /\ IdleMerge
    /\ prog = <<>>
    /\ addrDown = FALSE
    /\ deadBlocks = {}
    /\ inlineChildren = {}
    /\ ctxTree = NoTree
    /\ lfa = LoadForwardAttempt(FALSE)
    /\ callBlockedPBLoads = <<>>
    /\ requeued = {}
    /\ baseline = <<>>
    /\ extraDead = 0
    /\ lastInval = NoInval
    /\ pointerBases = <<>>
    /\ improvedValues = <<>>
    /\ defOrClobberCache = <<>>
    /\ failedLFACache = <<>>
    /\ memWriterEffects = <<>>
    /\ CFGDependentPBLoads = {}
    /\ PBsConsideredThisRun = <<>>
    /\ PBQueue1 = <<>>
    /\ PBQueue2 = <<>>
    /\ PBProduceQ = 1
    /\ pendingPBChecks1 = <<>>
    /\ pendingPBChecks2 = <<>>
    /\ producePendingPBChecks = 1
    /\ pc = "scope"
    /\ LoopsToCheck = <<>>
    /\ ValuesToCheck = <<>>
    /\ solverFinalise = FALSE
    /\ ConsumeQ = 2
    /\ sweep = <<>>
    /\ updatedVCs = <<>>
    /\ asserts = {}
    /\ seeds = {}
    /\ runs = 0
    /\ lastUpdate = NoUpdate
    /\ afterRun = <<>>
    /\ owed = {}

\* addStartOfScopePB(LFA) at the end of the walk of tryResolveLoad.
AddStartOfScope ==
    /\ pc = "scope"
    /\ lfa' = startOfScopePB(lastOp.GV, lastOp.W, lastOp.FieldVC, lfa)
    /\ pc' = "done"
    /\ UNCHANGED <<pbVars, mergeVars, prog, addrDown, deadBlocks, inlineChildren,
                   ctxTree, attemptVars, queueVars, LoopsToCheck, ValuesToCheck,
                   solverFinalise, ConsumeQ, sweep, updatedVCs, historyVars, clientVars>>

SpecScope == InitScope /\ [][AddStartOfScope]_vars

(***************************************************************************)
(* C37.  The window check of addStartOfScopePB.                            *)
(***************************************************************************)
afterStartOfScope == pc = "done" /\ lastOp.kind = "addStartOfScopePB"

\* 0 <= ReadOffset and ReadOffset + LoadSize <= GVCSize, the offset taken
\* as a signed value: computed without a wrap-around.
windowInsideInitializer(W) ==
    /\ ~W.SymExprOffset.neg
    /\ ~less64(W.GVCSize, W.SymExprOffset.mag)
    /\ ~less64(sub64(W.GVCSize, W.SymExprOffset.mag), W.LoadSize)

\* The offset is negative or greater than the size of the initializer.
offsetOutsideInitializer(W) ==
    W.SymExprOffset.neg \/ less64(W.GVCSize, W.SymExprOffset.mag)

\* C37 as stated: addStartOfScopePB consults the initializer of the global
\* only when the window of the load lies wholly inside it, that is when
\* 0 <= ReadOffset and ReadOffset + LoadSize <= GVCSize for the signed
\* offset; for a negative offset and for an offset beyond the size of the
\* initializer the check FirstNotDef == LoadSize fails and the attempt ends
\* with reachedTop("Reached main").
C37_InitializerWindow ==
    afterStartOfScope =>
        /\ consultsInitializer(lastOp.GV, lastOp.W) => windowInsideInitializer(lastOp.W)
        /\ offsetOutsideInitializer(lastOp.W) =>
               /\ ~firstNotDefIsLoadSize(lastOp.W)
               /\ lfa.ReachedTop
               /\ lfa.ReachedTopStr = "Reached main"

(***************************************************************************)
(* C38.  The structure of a PointerBase (checked under SpecPB).            *)
(***************************************************************************)
noTwoEqual(vals) ==
    \A i, j \in 1..Len(vals) : i # j => ~VCEq(vals[i], vals[j])

wellFormed(P) ==
    /\ P.Overdef => P.Values = <<>>
    /\ Len(P.Values) <= PBMAX
    /\ noTwoEqual(P.Values)

\* C38: every PointerBase built by the constructors, insert, merge and
\* setOverdef has no Values when it is Overdef, has at most PBMAX Values,
\* and holds no two ValCtxs equal in value, context, offset and va_arg; and
\* insert of a ValCtx the fact already holds leaves the fact as it was,
\* also when the fact holds PBMAX Values.
C38_WellFormedFact ==
    /\ wellFormed(fact)
    /\ (lastOp.kind = "insert" /\ countVC(lastOp.pre.Values, lastOp.vc) > 0)
           => fact = lastOp.pre

\* insert was given a ValCtx that a fact of PBMAX Values already holds, and
\* the fact is as it was.
C38_Witness ==
    /\ lastOp.kind = "insert"
    /\ Len(lastOp.pre.Values) = PBMAX
    /\ countVC(lastOp.pre.Values, lastOp.vc) > 0
    /\ Len(fact.Values) = PBMAX
    /\ ~fact.Overdef

(***************************************************************************)
(* C39.  The facts updateBasePointer stores are initialised and typed.     *)
(***************************************************************************)
\* The values whose fact was computed by each kind of transfer function.
valuesOfOpcodes(ops) == { V \in Values : getOpcode(V) \in ops }

storedFactsTyped ==
    \A V \in Values : pointerBases[V] # <<>> => typedFact(pointerBases[V][1])

====
